---- MODULE Spec2Model ----
(***************************************************************************)
(* Model of the cartographic rendering core of mp_graphics:                *)
(*   graphics/svg_generator.py  SVGGraphicsGenerator (DRAWING, SCHEME,     *)
(*                              SGP composers and CH pagination)           *)
(*   layout/srzu_renderer.py    render_srzu                                *)
(*   core/page.py, core/units.py  page formats, scale selection, mm->px    *)
(*   graphics/labels.py         label formatters and validate_label        *)
(*                                                                         *)
(* Text is a sequence of one-character strings.  The module is ASCII, so   *)
(* the Cyrillic letters of the source are written as named characters:     *)
(*   "cyr_n"  small en   (prefix of a new point's label)                   *)
(*   "cyr_N"  capital en                                                   *)
(*   "cyr_Z" "cyr_U"  capital ze, capital u  (the parcel token)            *)
(*   "cyr_ch" "cyr_z" "cyr_u"  small che, ze, u  (the part token)          *)
(*   "cyr_m"  small em   (metres)                                          *)
(*                                                                         *)
(* Lengths on a sheet are integers in units of 1/127 px: mm_to_px(mm, dpi) *)
(* = mm * dpi / 25.4 px = mm * dpi * 5 units, exactly, for every integral  *)
(* mm and dpi.  Ground coordinates are integral metres.                    *)
(***************************************************************************)
EXTENDS Integers, Sequences, FiniteSets, TLC

VARIABLES config, used_legend_tokens, cpp_data, calls, out,
          page_call, label_call, op_data, tile_labels, text_call,
          cluster_call, segment_call

vars == <<config, used_legend_tokens, cpp_data, calls, out,
          page_call, label_call, op_data, tile_labels, text_call,
          cluster_call, segment_call>>

(***************************************************************************)
(* Bounds of the model                                                     *)
(***************************************************************************)
MaxCalls == 2
MaxPts == 2
MaxRing == 3
MaxCounter == 11
MaxStrLen == 2
MaxAllowed == 2

(***************************************************************************)
(* Generic helpers                                                         *)
(***************************************************************************)
Max2(a, b) == IF a >= b THEN a ELSE b
Min2(a, b) == IF a <= b THEN a ELSE b

RECURSIVE SetMax(_)
SetMax(S) == LET x == CHOOSE y \in S : TRUE
             IN IF S = {x} THEN x ELSE Max2(x, SetMax(S \ {x}))
RECURSIVE SetMin(_)
SetMin(S) == LET x == CHOOSE y \in S : TRUE
             IN IF S = {x} THEN x ELSE Min2(x, SetMin(S \ {x}))

\* math.ceil(a / b) for a >= 0, b > 0
CeilDiv(a, b) == (a + b - 1) \div b

DigitChar == <<"0", "1", "2", "3", "4", "5", "6", "7", "8", "9">>
DigitChars == {DigitChar[i] : i \in 1..10}

\* f"{n}" for a non-negative int n
RECURSIVE IntToStr(_)
IntToStr(n) == IF n < 10 THEN <<DigitChar[n + 1]>>
               ELSE IntToStr(n \div 10) \o <<DigitChar[(n % 10) + 1]>>

(***************************************************************************)
(* core/units.py, SVGConfig                                                *)
(***************************************************************************)
PxUnit == 127
dpi == 96
header_height_mm == 18
legend_height_mm == 40
font_size == 11
\* min_font_pt = 7.0; int(round(7.0 * 96 / 72)) = int(round(9.33)) = 9
min_font_pt == 7
MinFontPx == ((min_font_pt * 96 * 2) \div 72 + 1) \div 2

\* mm_to_px in units of 1/127 px
mm_to_px(mm) == mm * dpi * 5
\* int(mm_to_px(mm)) in px
IntPx(mm) == mm_to_px(mm) \div PxUnit

DefaultConfig == [width |-> 800, height |-> 600, page_width_mm |-> 210,
                  page_height_mm |-> 297, margin_mm |-> 14]
A3Config == [width |-> 800, height |-> 600, page_width_mm |-> 297,
             page_height_mm |-> 420, margin_mm |-> 8]

\* _workarea_size_px, in units of 1/127 px
workarea_size_px(cfg) ==
    LET wa_w_mm == Max2(0, cfg.page_width_mm - 2 * cfg.margin_mm)
        wa_h_mm == Max2(0, cfg.page_height_mm
                           - (2 * cfg.margin_mm + header_height_mm + legend_height_mm))
    IN <<mm_to_px(wa_w_mm), mm_to_px(wa_h_mm)>>

(***************************************************************************)
(* Colours and styles                                                      *)
(***************************************************************************)
red == "#FF0000"
black == "#000000"
blue == "#0077CC"
gray == "#808080"

Kinds == {"EXISTING", "CREATED", "NEW", "REMOVED", "OTHER"}
NewKinds == {"NEW", "CREATED"}

\* the segment classification of generate_parcel_graphics / generate_sgp_graphics
SegStatusFlipped(k1, k2) ==
    IF k1 \in NewKinds THEN "NEW"
    ELSE IF k1 = "EXISTING" /\ k2 = "EXISTING" THEN "EXISTING"
    ELSE "UNCERTAIN"
SegStatus(k1, k2) ==
    IF k1 \in NewKinds \/ k2 \in NewKinds THEN "NEW"
    ELSE IF k1 = "EXISTING" /\ k2 = "EXISTING" THEN "EXISTING"
    ELSE "UNCERTAIN"

\* _draw_boundary_segment: the line and the legend token it tracks
draw_boundary_segment(status) ==
    LET stroke == IF status = "NEW" THEN red ELSE black
        dash == IF status = "UNCERTAIN" THEN "2mm 1mm" ELSE ""
        token == IF status = "NEW" THEN "boundary-new"
                 ELSE IF status = "UNCERTAIN" THEN "boundary-uncertain"
                 ELSE "boundary-existing"
    IN [line |-> [stroke |-> stroke, stroke_width |-> "0.2mm", dash |-> dash,
                  status |-> status],
        token |-> token]

\* _create_text: the font size actually written
create_text_font(fs) ==
    LET font_sz == IF fs # 0 THEN fs ELSE font_size
    IN IF font_sz < MinFontPx THEN MinFontPx ELSE font_sz

(***************************************************************************)
(* graphics/labels.py: ParcelLabelFormatter.build_parcel_label             *)
(***************************************************************************)
RECURSIVE Strip(_)
Strip(s) == IF s = <<>> THEN s
            ELSE IF Head(s) = " " THEN Strip(Tail(s))
            ELSE IF s[Len(s)] = " " THEN Strip(SubSeq(s, 1, Len(s) - 1))
            ELSE s

\* s.split(sep)[-1]: what follows the last sep (all of s when sep is absent)
RECURSIVE LastBlock(_, _)
LastBlock(s, sep) ==
    IF \A i \in 1..Len(s) : s[i] # sep THEN s
    ELSE LastBlock(Tail(s), sep)

ParcelToken == <<":", "cyr_Z", "cyr_U">>

build_parcel_label(parcel) ==
    LET cadnum == parcel.cadastral_number
        designation == Strip(parcel.designation)
        last == Strip(LastBlock(cadnum, ":"))
    IN IF cadnum # <<>>
       THEN (IF last # <<>> THEN <<":">> \o last ELSE ParcelToken)
       ELSE IF designation # <<>>
       THEN (IF Head(designation) = ":" THEN designation ELSE <<":">> \o designation)
       ELSE ParcelToken

\* the shortening of labels over 20 characters (DRAWING and SCHEME)
display_label(label) ==
    IF Len(label) > 20
    THEN (IF \E i \in 1..Len(label) : label[i] = "/"
          THEN LastBlock(label, "/")
          ELSE SubSeq(label, Len(label) - 19, Len(label)))
    ELSE label

(***************************************************************************)
(* The main parcel: generate_parcel_graphics / generate_scheme_graphics    *)
(***************************************************************************)
main_parcels(parcels) ==
    LET sel == SelectSeq(parcels, LAMBDA p : p.is_main \/ p.status = "NEW")
    IN IF sel = <<>> /\ parcels # <<>> THEN <<parcels[1]>> ELSE sel

(***************************************************************************)
(* _draw_point                                                             *)
(***************************************************************************)
PointStatusOf(kind) ==
    IF kind \in NewKinds THEN "NEW"
    ELSE IF kind = "REMOVED" THEN "REMOVED"
    ELSE "EXISTING"

PointToken(status) ==
    IF status = "NEW" THEN "point-new"
    ELSE IF status = "REMOVED" THEN "point-removed"
    ELSE "point-existing"

draw_point_unprefixed(status, label) ==
    [fill |-> IF status = "NEW" THEN red ELSE black,
     label |-> label,
     font_size |-> Max2(font_size, MinFontPx),
     style |-> IF status = "REMOVED" THEN "italic underline" ELSE ""]
draw_point(status, label) ==
    LET color == IF status = "NEW" THEN red ELSE black
        txt == IF status = "NEW" /\ ~(Head(label) \in {"cyr_n", "cyr_N"})
               THEN <<"cyr_n">> \o label ELSE label
    IN [fill |-> color,
        label |-> txt,
        font_size |-> Max2(font_size, MinFontPx),
        style |-> IF status = "REMOVED" THEN "italic underline" ELSE ""]

\* the running numbers of generate_parcel_graphics: created_index for
\* NEW/CREATED points, existing_index for all others, up to point i
CountKinds(pts, i, new) ==
    Cardinality({j \in 1..i : (pts[j].kind \in NewKinds) = new})

(***************************************************************************)
(* generate_parcel_graphics (the DRAWING composer)                         *)
(***************************************************************************)
EmptyGraphics == [segs |-> <<>>, points |-> <<>>, parcel_label |-> <<>>,
                  stations |-> <<>>, directions |-> <<>>, tokens |-> {}]

generate_parcel_graphics(parcels, pts, skip_point_labels) ==
    IF parcels = <<>> \/ pts = <<>> THEN EmptyGraphics
    ELSE
    LET n == Len(pts)
        main == main_parcels(parcels)
        seg(i) == draw_boundary_segment(
                      SegStatus(pts[i].kind, pts[(i % n) + 1].kind))
        segs == IF main # <<>> THEN [i \in 1..n |-> seg(i).line] ELSE <<>>
        segTokens == IF main # <<>> THEN {seg(i).token : i \in 1..n} ELSE {}
        pt(i) ==
            LET status == PointStatusOf(pts[i].kind)
                lbl == IntToStr(CountKinds(pts, i, status = "NEW"))
            IN IF skip_point_labels
               THEN [fill |-> IF status = "NEW" THEN red ELSE black,
                     label |-> <<>>, font_size |-> 0, style |-> ""]
               ELSE draw_point(status, lbl)
        label == build_parcel_label(main[1])
        plabel == IF main # <<>> /\ label # <<>>
                  THEN <<[text |-> display_label(label), fill |-> black,
                          font_size |-> Max2(16, MinFontPx), leader |-> TRUE]>>
                  ELSE <<>>
    IN [segs |-> segs,
        points |-> [i \in 1..n |-> pt(i)],
        parcel_label |-> plabel,
        stations |-> <<>>, directions |-> <<>>,
        tokens |-> segTokens
                   \cup {PointToken(PointStatusOf(pts[i].kind)) : i \in 1..n}]

(***************************************************************************)
(* generate_scheme_graphics (the SCHEME composer of the generator)         *)
(***************************************************************************)
generate_scheme_graphics(parcels, pts) ==
    IF parcels = <<>> \/ pts = <<>> THEN EmptyGraphics
    ELSE
    LET n == Len(pts)
        main == main_parcels(parcels)
        isNew(i) == pts[i].kind \in NewKinds \/ pts[(i % n) + 1].kind \in NewKinds
        drawn == main # <<>> /\ n >= 3
        seg(i) == [stroke |-> IF isNew(i) THEN red ELSE gray,
                   stroke_width |-> "2.5mm", dash |-> "",
                   status |-> IF isNew(i) THEN "NEW" ELSE "EXISTING"]
        label == build_parcel_label(main[1])
        labelled == main # <<>> /\ label # <<>>
    IN [segs |-> IF drawn THEN [i \in 1..n |-> seg(i)] ELSE <<>>,
        points |-> [i \in 1..n |-> [fill |-> black, label |-> <<>>,
                                    font_size |-> 0, style |-> ""]],
        parcel_label |-> IF labelled
                         THEN <<[text |-> display_label(label), fill |-> black,
                                 font_size |-> create_text_font(9),
                                 leader |-> FALSE]>>
                         ELSE <<>>,
        stations |-> <<>>, directions |-> <<>>,
        tokens |-> (IF drawn
                    THEN {IF isNew(i) THEN "target" ELSE "adjacent" : i \in 1..n}
                    ELSE {})
                   \cup (IF labelled THEN {"label-parcel"} ELSE {})]

(***************************************************************************)
(* Bounding box of a point list, in metres                                 *)
(***************************************************************************)
XsOf(pts) == {pts[i].x : i \in 1..Len(pts)}
YsOf(pts) == {pts[i].y : i \in 1..Len(pts)}
WidthM(pts) == SetMax(XsOf(pts)) - SetMin(XsOf(pts))
HeightM(pts) == SetMax(YsOf(pts)) - SetMin(YsOf(pts))

(***************************************************************************)
(* generate_sgp_graphics (the SGP composer)                                *)
(***************************************************************************)
inner_margin_px == 60
buffer_zone == 150

\* config.width / config.height while the SGP sheet is composed
sgp_working_config(cfg) ==
    [cfg EXCEPT !.width = workarea_size_px(cfg)[1] \div PxUnit,
                !.height = workarea_size_px(cfg)[2] \div PxUnit]

\* The fit of the parcel with its 150 px buffer (lines 1024-1040).  The
\* normalised extent of the contour is extent * min(scale_x, scale_y), times
\* 0.7 for three points or more; tenths of a px keep the comparison exact.
\* scale_factor divides by parcel_width and by parcel_height, so the
\* rescaling raises ZeroDivisionError when either is zero.
sgp_raises(wcfg, pts) ==
    LET w == WidthM(pts)
        h == HeightM(pts)
        A == wcfg.width - 2 * inner_margin_px
        B == wcfg.height - 2 * inner_margin_px
        f == IF Len(pts) >= 3 THEN 7 ELSE 10
        \* 10 * normalised extents under scale = min(scale_x, scale_y), for
        \* a degenerate box (scale_x = 1.0 when w = 0, scale_y = 1.0 when h = 0)
        pw10 == IF w = 0 THEN 0 ELSE f * Min2(w, A)
        ph10 == IF h = 0 THEN 0 ELSE f * Min2(h, B)
        too_big == pw10 + 10 * 2 * buffer_zone > 10 * wcfg.width
                   \/ ph10 + 10 * 2 * buffer_zone > 10 * wcfg.height
    IN (w = 0 \/ h = 0) /\ too_big

SgpPointTokens(kind) ==
    IF kind \in NewKinds THEN {"point-new", "label-point-new"}
    ELSE IF kind = "REMOVED" THEN {"point-removed"}
    ELSE {"point-existing", "label-point-existing"}

\* (the directions argument is never read; each station gets a line to the
\* first boundary point, ending in the marker sgp-arrow)
generate_sgp_graphics(stations, pts) ==
    IF pts = <<>> THEN EmptyGraphics
    ELSE
    LET n == Len(pts)
        seg(i) == draw_boundary_segment(
                      SegStatus(pts[i].kind, pts[(i % n) + 1].kind))
        drawn == n >= 2
        st(i) ==
            LET ggs == stations[i].kind = "GGS"
            IN [symbol |-> IF ggs THEN "polygon" ELSE "rect",
                name_font |-> create_text_font(font_size - 1),
                line |-> [stroke |-> blue, stroke_width |-> "0.2mm",
                          marker_end |-> "url(#sgp-arrow)"],
                dist_font |-> create_text_font(font_size - 2),
                dist_suffix |-> <<" ", "cyr_m">>]
        pt(i) ==
            LET status == PointStatusOf(pts[i].kind)
            IN [fill |-> IF status = "NEW" THEN red ELSE black,
                label |-> IF status = "NEW" THEN <<"cyr_n">> \o IntToStr(i)
                          ELSE IntToStr(i),
                font_size |-> IF status = "REMOVED" THEN font_size
                              ELSE create_text_font(font_size),
                style |-> IF status = "REMOVED" THEN "italic underline" ELSE ""]
    IN [segs |-> IF drawn THEN [i \in 1..n |-> seg(i).line] ELSE <<>>,
        points |-> [i \in 1..n |-> pt(i)],
        parcel_label |-> <<>>,
        stations |-> [i \in 1..Len(stations) |-> st(i)],
        directions |-> <<>>,
        tokens |-> (IF drawn THEN {seg(i).token : i \in 1..n} ELSE {})
                   \cup {IF stations[i].kind = "GGS" THEN "ggs" ELSE "oms"
                         : i \in 1..Len(stations)}
                   \cup (IF stations # <<>> THEN {"geodir-determine"} ELSE {})
                   \cup UNION {SgpPointTokens(pts[i].kind) : i \in 1..n}]

(***************************************************************************)
(* generate_drawings_paginated (CH pagination)                             *)
(***************************************************************************)
DefaultScales == <<500>>

\* S = scale_list[0], with [500] for a missing or empty list
ch_scale(scales) == IF scales = <<>> THEN DefaultScales[1] ELSE scales[1]

\* px_per_meter = mm_to_px(1.0) * 1000 / S, in units of 1/127 px
px_per_meter(S) == (mm_to_px(1) * 1000) \div S

\* width_m = max(1e-6, max_x - min_x) times px_per_meter.  A zero extent is
\* clamped by the code to 1e-6 m, less than 1/500 of a unit: it is 0 here,
\* and every use below gives the value the code gets from the clamp.
content_px(extent_m, S) == extent_m * px_per_meter(S)

\* offset_x_px / offset_y_px: centre the content when it is smaller
offset_px(wa, content) ==
    IF content < wa THEN Max2(0, (wa - content) \div 2) ELSE 0

tiles_floor(content, wa) == Max2(1, content \div wa)
\* cols / rows = max(1, ceil(content_px / wa_px)); the float quotient of the
\* code is exact where content is a whole multiple of the workarea of a
\* 210 mm page (91 m on 182 mm at 1:500)
tiles_count(content, wa) == Max2(1, CeilDiv(content, wa))

label_pad_mm == 3

ChPointTokens(kind) ==
    IF kind \in NewKinds THEN {"point-new", "label-point-new"}
    ELSE {"point-existing", "label-point-existing"}

\* the geometry shared by all the tiles of one call
ch_layout(cfg, data) ==
    LET pts == data.boundary_points
        S == ch_scale(data.scales_allowed)
        wa == workarea_size_px(cfg)
        cw == content_px(WidthM(pts), S)
        ch == content_px(HeightM(pts), S)
    IN [wa_w |-> wa[1], wa_h |-> wa[2], S |-> S,
        content_w |-> cw, content_h |-> ch,
        offset_x |-> offset_px(wa[1], cw), offset_y |-> offset_px(wa[2], ch),
        cols |-> tiles_count(cw, wa[1]), rows |-> tiles_count(ch, wa[2]),
        min_x |-> SetMin(XsOf(pts)), min_y |-> SetMin(YsOf(pts))]

\* to_px: metres to sheet units, y downwards
to_px(L, p) ==
    [x |-> (p.x - L.min_x) * px_per_meter(L.S) + L.offset_x,
     y |-> L.content_h - (p.y - L.min_y) * px_per_meter(L.S) + L.offset_y]

\* the clip rectangle of a tile as <<x, y, width, height>>
clip_rect(L, r, c) ==
    <<c * L.wa_w - mm_to_px(label_pad_mm), r * L.wa_h - mm_to_px(label_pad_mm),
      L.wa_w + 2 * mm_to_px(label_pad_mm), L.wa_h + 2 * mm_to_px(label_pad_mm)>>

\* one pass of the tile loop body (lines 1538-1823)
ch_tile(L, data, r, c) ==
    LET pts == data.boundary_points
        parcels == data.parcels
        n == Len(pts)
        tile_x0 == c * L.wa_w
        tile_y0 == r * L.wa_h
        isNew(i) == pts[i].kind \in NewKinds \/ pts[(i % n) + 1].kind \in NewKinds
        rel(i) == [x |-> to_px(L, pts[i]).x - tile_x0,
                   y |-> to_px(L, pts[i]).y - tile_y0]
        seg(i) == [stroke |-> IF isNew(i) THEN red ELSE black,
                   stroke_width |-> "0.2mm", dash |-> "",
                   status |-> IF isNew(i) THEN "NEW" ELSE "EXISTING",
                   x1 |-> rel(i).x, y1 |-> rel(i).y,
                   x2 |-> rel((i % n) + 1).x, y2 |-> rel((i % n) + 1).y]
        pt(i) ==
            LET new == pts[i].kind \in NewKinds
            IN [fill |-> IF new THEN red ELSE black,
                label |-> IF new
                          THEN <<"cyr_n">> \o IntToStr(CountKinds(pts, i, TRUE))
                          ELSE IntToStr(CountKinds(pts, i, FALSE)),
                font_size |-> create_text_font(font_size),
                style |-> "",
                x_rel |-> rel(i).x, y_rel |-> rel(i).y]
        page_num == r * L.cols + c + 1
    IN [tile |-> <<r, c>>,
        start_tokens |-> {},
        view |-> <<L.wa_w, L.wa_h>>,
        clip |-> clip_rect(L, r, c),
        segs |-> [i \in 1..n |-> seg(i)],
        points |-> [i \in 1..n |-> pt(i)],
        parcel_label |->
            IF parcels # <<>>
            THEN <<[text |-> build_parcel_label(parcels[1]), fill |-> black,
                    font_size |-> create_text_font(16), leader |-> FALSE]>>
            ELSE <<>>,
        stations |-> <<>>, directions |-> <<>>,
        hints |-> IF L.cols * L.rows > 1
                  THEN SelectSeq(<<page_num - 1, page_num + 1>>,
                                 LAMBDA nbr : 1 <= nbr /\ nbr <= L.cols * L.rows)
                  ELSE <<>>,
        end_tokens |->
            {IF isNew(i) THEN "boundary-new" ELSE "boundary-existing" : i \in 1..n}
            \cup UNION {ChPointTokens(pts[i].kind) : i \in 1..n}
            \cup (IF parcels # <<>> THEN {"label-parcel"} ELSE {})]

\* for r in range(rows): for c in range(cols): svgs.append(tile)
RECURSIVE ch_tiles(_, _, _, _)
ch_tiles(L, data, r, c) ==
    IF r >= L.rows THEN <<>>
    ELSE <<ch_tile(L, data, r, c)>>
         \o (IF c + 1 < L.cols THEN ch_tiles(L, data, r, c + 1)
             ELSE ch_tiles(L, data, r + 1, 0))

(***************************************************************************)
(* core/page.py: PageFormat, choose_format_and_scale                       *)
(* The content box is in millimetres of ground (metres * 1000).            *)
(***************************************************************************)
A4 == [name |-> "A4", width_mm |-> 210, height_mm |-> 297,
       margin_left_mm |-> 20, margin_right_mm |-> 20,
       margin_top_mm |-> 10, margin_bottom_mm |-> 10]
A3 == [name |-> "A3", width_mm |-> 297, height_mm |-> 420,
       margin_left_mm |-> 20, margin_right_mm |-> 20,
       margin_top_mm |-> 10, margin_bottom_mm |-> 10]

workarea_width_mm(fmt) ==
    Max2(0, fmt.width_mm - fmt.margin_left_mm - fmt.margin_right_mm)
workarea_height_mm(fmt) ==
    Max2(0, fmt.height_mm - fmt.margin_top_mm - fmt.margin_bottom_mm)

DefaultAllowed == <<500, 1000, 2000, 5000>>

\* max(1e-9, v): a non-positive extent becomes a positive value below every
\* product n * workarea of integers, for which 1 stands
ClampPos(v) == IF v <= 0 THEN 1 ELSE v

\* n >= _scale_denominator_for_bbox(content, workarea), without the division:
\* n >= max(cw / ww, ch / wh)  <=>  n * ww >= cw  and  n * wh >= ch
covers_strict(n, cw, chh, ww, wh) ==
    n * ClampPos(ww) > ClampPos(cw) /\ n * ClampPos(wh) > ClampPos(chh)
covers(n, cw, chh, ww, wh) ==
    n * ClampPos(ww) >= ClampPos(cw) /\ n * ClampPos(wh) >= ClampPos(chh)

\* sorted(allowed_scales or [500, 1000, 2000, 5000])
sorted_allowed(allowed_scales) ==
    SortSeq(IF allowed_scales = <<>> THEN DefaultAllowed ELSE allowed_scales,
            LAMBDA a, b : a < b)

\* pick_for(fmt): the first allowed n that covers, else the last allowed
pick_for(fmt, bbox, allowed) ==
    LET cw == ClampPos(bbox[3] - bbox[1])
        chh == ClampPos(bbox[4] - bbox[2])
        ok == {i \in 1..Len(allowed) :
                  covers(allowed[i], cw, chh,
                         workarea_width_mm(fmt), workarea_height_mm(fmt))}
    IN IF ok # {} THEN allowed[SetMin(ok)] ELSE allowed[Len(allowed)]

\* pick_for always returns an int, so "n_a4 is not None" holds and A4 is returned
choose_format_and_scale(bbox, allowed_scales) ==
    [format |-> A4, n |-> pick_for(A4, bbox, sorted_allowed(allowed_scales))]

(***************************************************************************)
(* graphics/labels.py: the formatters, REGEX_LABELS and validate_label     *)
(***************************************************************************)
ZU == <<"cyr_Z", "cyr_U">>
chzu == <<"cyr_ch", "cyr_z", "cyr_u">>

base_label_for_clarify(quartal_no) == <<":">> \o quartal_no
new_label_for_split(quartal_no, n) ==
    <<":">> \o quartal_no \o <<":">> \o ZU \o IntToStr(n)
new_label_for_merge(n) == <<":">> \o ZU \o IntToStr(n)
part_existing(quartal_no, part_no) ==
    <<":">> \o quartal_no \o <<"/">> \o IntToStr(part_no)
part_new_on_changed_latin(quartal_no, n) ==
    <<":">> \o quartal_no \o <<"/">> \o <<"cyr_ch", "cyr_z", "y">> \o IntToStr(n)
part_new_on_changed(quartal_no, n) ==
    <<":">> \o quartal_no \o <<"/">> \o chzu \o IntToStr(n)
part_new_on_split(quartal_no, zu_n, part_n) ==
    <<":">> \o quartal_no \o <<":">> \o ZU \o IntToStr(zu_n)
    \o <<"/">> \o chzu \o IntToStr(part_n)
part_new_on_merge(zu_n, part_n) ==
    <<":">> \o ZU \o IntToStr(zu_n) \o <<"/">> \o chzu \o IntToStr(part_n)

\* regular expressions as sequences of items between ^ and $:
\* a one-character string is a literal, "\\d+" is one or more digits
D == "\\d+"
REGEX_LABELS ==
    [clarify |-> <<":", D>>,
     split |-> <<":", D, ":">> \o ZU \o <<D>>,
     merge |-> <<":">> \o ZU \o <<D>>,
     part_existing |-> <<":", D, "/", D>>,
     part_new_changed |-> <<":", D, "/">> \o chzu \o <<D>>,
     part_new_split |-> <<":", D, ":">> \o ZU \o <<D, "/">> \o chzu \o <<D>>,
     part_new_merge |-> <<":">> \o ZU \o <<D, "/">> \o chzu \o <<D>>]

\* re.match of an anchored pattern; $ also matches before a final newline
RECURSIVE re_match(_, _)
re_match(pat, str) ==
    IF pat = <<>> THEN str = <<>> \/ str = <<"LF">>
    ELSE IF str = <<>> THEN FALSE
    ELSE IF Head(pat) = D
         THEN Head(str) \in DigitChars
              /\ (re_match(Tail(pat), Tail(str)) \/ re_match(pat, Tail(str)))
    ELSE Head(str) = Head(pat) /\ re_match(Tail(pat), Tail(str))

validate_label(label, kind) ==
    IF kind \notin DOMAIN REGEX_LABELS THEN FALSE
    ELSE re_match(REGEX_LABELS[kind], label)

(***************************************************************************)
(* layout/srzu_renderer.py: render_srzu                                    *)
(* Geometries are Polygon rings / LineString lists of [x, y] in metres.    *)
(***************************************************************************)
buffer_radius == 300
SrzuAllowed == <<500, 250, 1000, 2000>>

RECURSIVE Flatten(_)
Flatten(rings) == IF rings = <<>> THEN <<>> ELSE Head(rings) \o Flatten(Tail(rings))

RECURSIVE SumX(_)
SumX(pts) == IF pts = <<>> THEN 0 ELSE Head(pts).x + SumX(Tail(pts))
RECURSIVE SumY(_)
SumY(pts) == IF pts = <<>> THEN 0 ELSE Head(pts).y + SumY(Tail(pts))

\* the adjacent parcels whose mean vertex lies within buffer_radius of the
\* centre (cx2 / 2, cy2 / 2) of the target's bounding box
filter_adjacent(adjacent, cx2, cy2) ==
    SelectSeq(adjacent, LAMBDA ring :
        ring # <<>>
        /\ LET k == Len(ring)
               dx == 2 * SumX(ring) - k * cx2
               dy == 2 * SumY(ring) - k * cy2
           IN dx * dx + dy * dy <= (2 * k * buffer_radius) * (2 * k * buffer_radius))

\* content_bbox in millimetres of ground (lines 93-152)
srzu_content_bbox(data) ==
    LET target_pts == Flatten(data.target_parcels)
        cx2 == SetMin(XsOf(target_pts)) + SetMax(XsOf(target_pts))
        cy2 == SetMin(YsOf(target_pts)) + SetMax(YsOf(target_pts))
        all_pts == Flatten(data.target_parcels) \o Flatten(data.adjacent_parcels)
                   \o Flatten(data.quarters)
        raw == IF target_pts # <<>>
               THEN <<cx2 * 500 - buffer_radius * 1000, cy2 * 500 - buffer_radius * 1000,
                      cx2 * 500 + buffer_radius * 1000, cy2 * 500 + buffer_radius * 1000>>
               ELSE IF all_pts = <<>>
               THEN <<(0 - data.buffer_m) * 1000, (0 - data.buffer_m) * 1000,
                      (1 + data.buffer_m) * 1000, (1 + data.buffer_m) * 1000>>
               ELSE <<(SetMin(XsOf(all_pts)) - data.buffer_m) * 1000,
                      (SetMin(YsOf(all_pts)) - data.buffer_m) * 1000,
                      (SetMax(XsOf(all_pts)) + data.buffer_m) * 1000,
                      (SetMax(YsOf(all_pts)) + data.buffer_m) * 1000>>
        pad_x == IF raw[3] > raw[1] THEN (raw[3] - raw[1]) \div 20 ELSE 1000
        pad_y == IF raw[4] > raw[2] THEN (raw[4] - raw[2]) \div 20 ELSE 1000
    IN <<raw[1] - pad_x, raw[2] - pad_y, raw[3] + pad_x, raw[4] + pad_y>>

\* lines 160-167: the page of the chosen format is written into cfg
srzu_config(cfg, page_fmt) ==
    [cfg EXCEPT !.page_width_mm = page_fmt.width_mm,
                !.page_height_mm = page_fmt.height_mm,
                !.margin_mm = Max2(cfg.margin_mm, 10),
                !.width = IntPx(page_fmt.width_mm),
                !.height = IntPx(page_fmt.height_mm)]

\* _is_zone_legible(scale_den, cfg)
is_zone_legible(scale_den) == scale_den <= 2000

render_srzu(cfg, data) ==
    LET target_pts == Flatten(data.target_parcels)
        adjacent == IF target_pts # <<>>
                    THEN filter_adjacent(data.adjacent_parcels,
                             SetMin(XsOf(target_pts)) + SetMax(XsOf(target_pts)),
                             SetMin(YsOf(target_pts)) + SetMax(YsOf(target_pts)))
                    ELSE data.adjacent_parcels
        bbox == srzu_content_bbox(data)
        chosen == choose_format_and_scale(bbox, SrzuAllowed)
        target_segs == Flatten([i \in 1..Len(data.target_parcels) |->
                          IF Len(data.target_parcels[i]) >= 3
                          THEN [j \in 1..Len(data.target_parcels[i]) |->
                                   [stroke |-> "#ff0000", stroke_width |-> "0.2mm",
                                    dash |-> "", status |-> "NEW"]]
                          ELSE <<>>])
        parcel_lbl == data.target_parcels # <<>>
        zones == IF is_zone_legible(chosen.n) THEN data.zones ELSE <<>>
        \* parts in the order of the appends: one entry per element
        layers == [k \in 1..Len(data.quarters) |-> "quarters"]
                  \o [k \in 1..Len(data.admin_boundaries) |-> "admin"]
                  \o [k \in 1..Len(zones) |-> "zone"]
                  \o [k \in 1..Len(adjacent) |-> "adjacent"]
                  \o [k \in 1..Len(target_segs) |-> "target"]
                  \o (IF parcel_lbl THEN <<"label">> ELSE <<>>)
    IN [cfg |-> srzu_config(cfg, chosen.format),
        sheet |-> [tile |-> <<0, 0>>,
                   start_tokens |-> {},
                   view |-> <<IntPx(chosen.format.width_mm),
                              IntPx(chosen.format.height_mm)>>,
                   content_bbox |-> bbox,
                   format |-> chosen.format.name,
                   scale_den |-> chosen.n,
                   quarters |-> Len(data.quarters),
                   adjacent |-> Len(adjacent),
                   data |-> [data EXCEPT !.adjacent_parcels = adjacent],
                   layers |-> layers,
                   segs |-> target_segs,
                   end_tokens |->
                       (IF target_segs # <<>> \/ data.target_parcels # <<>>
                        THEN {"target"} ELSE {})
                       \cup (IF adjacent # <<>> THEN {"adjacent"} ELSE {})
                       \cup (IF data.quarters # <<>> THEN {"quarters"} ELSE {})
                       \cup (IF data.admin_boundaries # <<>> THEN {"admin"} ELSE {})
                       \cup (IF zones # <<>> THEN {"zone"} ELSE {})
                       \cup (IF parcel_lbl THEN {"label-parcel"} ELSE {})]]

(***************************************************************************)
(* Input data of the model                                                 *)
(***************************************************************************)
NewParcel == [status |-> "NEW", is_main |-> TRUE,
              cadastral_number |-> <<"0", "1", ":", "1", "2", "3">>,
              designation |-> <<>>]
ExistingParcel == [status |-> "EXISTING", is_main |-> FALSE,
                   cadastral_number |-> <<>>,
                   designation |-> <<":", "4", "5">>]

StationOMS == [id |-> "s1", x |-> 200, y |-> 0, kind |-> "OMS"]
StationGGS == [id |-> "s2", x |-> 0, y |-> 300, kind |-> "GGS"]

\* a small parcel that fits one sheet at 1:500
RingPos == <<[x |-> 0, y |-> 0], [x |-> 40, y |-> 0], [x |-> 40, y |-> 30],
             [x |-> 0, y |-> 30], [x |-> 20, y |-> 45]>>
\* the 200 x 200 square of the tests
SquarePos == <<[x |-> -100, y |-> -100], [x |-> 100, y |-> -100],
               [x |-> 100, y |-> 100], [x |-> -100, y |-> 100]>>

\* 400 m in a row is wider than the SGP sheet leaves beside its buffer
Xs == {0, 91, 140, 400}
Ys == {0, 120}

Pt(pos, kind) == [x |-> pos.x, y |-> pos.y, kind |-> kind]

\* rings of fixed shape with every combination of kinds
KindRings ==
    UNION {{[i \in 1..n |-> Pt(RingPos[i], ks[i])] : ks \in [1..n -> Kinds]}
           : n \in 2..MaxRing}
\* point lists of every shape, the first point CREATED and the others EXISTING
ShapeLists ==
    UNION {{[i \in 1..n |-> Pt(ps[i], IF i = 1 THEN "CREATED" ELSE "EXISTING")]
            : ps \in [1..n -> [x : Xs, y : Ys]]}
           : n \in 1..MaxPts}
Squares == {[i \in 1..4 |-> Pt(SquarePos[i], k)] : k \in {"CREATED", "EXISTING"}}

CppData(parcels, pts, stations, scales) ==
    [parcels |-> parcels, boundary_points |-> pts, stations |-> stations,
     directions |-> <<>>, scales_allowed |-> scales]
\* entities.directions: one direction from the OMS station to a point
DirectionOMS == [from_station_id |-> "s1", to_point_id |-> "bp2",
                 length_m_int |-> 100]
WithDirections(data, directions) ==
    [parcels |-> data.parcels, boundary_points |-> data.boundary_points,
     stations |-> data.stations, directions |-> directions,
     scales_allowed |-> data.scales_allowed]

CppInputs ==
    {CppData(<<NewParcel>>, pts, <<>>, <<500>>) : pts \in KindRings}
    \cup {CppData(<<ExistingParcel, NewParcel>>, pts, <<>>, sc)
          : pts \in ShapeLists, sc \in {<<>>, <<500>>, <<1000, 500>>}}
    \cup {CppData(ps, pts, st, <<500>>)
          : ps \in {<<NewParcel>>, <<ExistingParcel>>}, pts \in Squares,
            st \in {<<>>, <<StationOMS>>, <<StationGGS, StationOMS>>}}
    \cup {WithDirections(CppData(<<NewParcel>>, pts, st, <<500>>), <<DirectionOMS>>)
          : pts \in Squares, st \in {<<StationOMS>>, <<StationGGS, StationOMS>>}}
    \cup {CppData(<<NewParcel>>, <<>>, <<StationOMS>>, <<500>>),
          CppData(<<>>, [i \in 1..3 |-> Pt(RingPos[i], "CREATED")], <<>>, <<500>>)}

SrzuTarget == <<[x |-> 0, y |-> 0], [x |-> 40, y |-> 0], [x |-> 40, y |-> 30]>>
SrzuNear == <<[x |-> 40, y |-> 0], [x |-> 90, y |-> 0], [x |-> 90, y |-> 30]>>
SrzuFar == <<[x |-> 500, y |-> 0], [x |-> 540, y |-> 0], [x |-> 540, y |-> 30]>>
SrzuQuarter == <<[x |-> -50, y |-> -50], [x |-> 150, y |-> -50], [x |-> 150, y |-> 150]>>

SrzuZone == <<[x |-> 10, y |-> 10], [x |-> 60, y |-> 10], [x |-> 60, y |-> 60]>>
SrzuAdmin == <<[x |-> -20, y |-> 20], [x |-> 120, y |-> 20]>>

\* with or without the zone and the administrative boundary of the district
SrzuInputs ==
    {[target_parcels |-> t, adjacent_parcels |-> a, quarters |-> q,
      zones |-> za[1], admin_boundaries |-> za[2], buffer_m |-> 200]
     : t \in {<<>>, <<SrzuTarget>>},
       a \in {<<>>, <<SrzuNear, SrzuFar>>},
       q \in {<<>>, <<SrzuQuarter>>},
       za \in {<<<<>>, <<>>>>, <<<<SrzuZone>>, <<SrzuAdmin>>>>}}

(***************************************************************************)
(* The generator and its render operations                                 *)
(***************************************************************************)
NoOut == [op |-> "none", section |-> "", raised |-> FALSE, sheets |-> <<>>,
          cfg_before |-> DefaultConfig, tokens_before |-> {},
          earlier |-> [section |-> "", labels |-> <<>>],
          legend_items |-> <<>>, legend_done |-> FALSE]
NoPageCall == [bbox |-> <<0, 0, 0, 0>>, allowed |-> <<>>, format |-> "",
               n |-> 0, done |-> FALSE]
NoLabelCall == [fn |-> "", q |-> <<>>, n |-> 0, m |-> 0, text |-> <<>>]
NoOpData == [parcels |-> <<>>, operation |-> "", has_parcel_xml |-> FALSE,
             parcel_xml_count |-> 0, before |-> <<>>, ch_label |-> <<>>]
NoTileLabels == [composer |-> "", point_data |-> <<>>, avoid |-> <<>>, i |-> 0,
                 label_positions |-> <<>>, tested |-> <<>>, texts |-> <<>>,
                 drawn |-> FALSE]
NoTextCall == [writer |-> "", font_size |-> 0, min_font_pt |-> 0, dpi |-> 0,
               requested |-> 0, scale_den |-> 0, written |-> 0, done |-> FALSE]
NoClusterCall == [point_data |-> <<>>, cluster_radius |-> 0, clusters |-> <<>>,
                  done |-> FALSE]
NoSegmentCall == [a1 |-> <<0, 0>>, a2 |-> <<0, 0>>, b1 |-> <<0, 0>>,
                  b2 |-> <<0, 0>>, label_place |-> FALSE, svg |-> FALSE,
                  done |-> FALSE]

\* SVGGraphicsGenerator(config) and the data handed to the pipeline
Init ==
    /\ config \in {DefaultConfig, A3Config}
    /\ used_legend_tokens = {}
    /\ cpp_data \in CppInputs
    /\ calls = 0
    /\ out = NoOut
    /\ page_call = NoPageCall
    /\ label_call = NoLabelCall
    /\ op_data = NoOpData
    /\ tile_labels = NoTileLabels
    /\ text_call = NoTextCall
    /\ cluster_call = NoClusterCall
    /\ segment_call = NoSegmentCall

\* the <svg> sheet of generate_complete_svg around the graphics g
complete_sheet(cfg, tokens, g) ==
    [tile |-> <<0, 0>>,
     start_tokens |-> tokens,
     view |-> <<cfg.width, cfg.height>>,
     segs |-> g.segs, points |-> g.points, parcel_label |-> g.parcel_label,
     stations |-> g.stations, directions |-> g.directions,
     end_tokens |-> tokens \cup g.tokens]

\* the texts of the point labels of a sheet, in the order of the points
point_labels(sheet) == [i \in 1..Len(sheet.points) |-> sheet.points[i].label]

\* what a call returns; earlier keeps the point labels of the sheet that the
\* call before it returned for the same cpp_data
Returned(op, section, sheets) ==
    [op |-> op, section |-> section, raised |-> FALSE, sheets |-> sheets,
     cfg_before |-> config, tokens_before |-> used_legend_tokens,
     earlier |-> [section |-> out.section,
                  labels |-> IF out.section \in {"SGP", "CH", "DRAWING"}
                                /\ out.sheets # <<>>
                             THEN point_labels(out.sheets[1])
                             ELSE <<>>],
     legend_items |-> <<>>, legend_done |-> FALSE]

\* generate_complete_svg(cpp_data, "SCHEME")
GenerateScheme ==
    /\ calls < MaxCalls
    /\ LET g == generate_scheme_graphics(cpp_data.parcels, cpp_data.boundary_points)
           sheet == complete_sheet(config, used_legend_tokens, g)
       IN /\ used_legend_tokens' = sheet.end_tokens
          /\ out' = Returned("generate_complete_svg", "SCHEME", <<sheet>>)
    /\ calls' = calls + 1
    /\ UNCHANGED <<config, cpp_data, page_call, label_call, op_data,
                 tile_labels, text_call, cluster_call,
                   segment_call>>

\* generate_complete_svg(cpp_data, "DRAWING")
GenerateDrawing ==
    /\ calls < MaxCalls
    /\ LET g == generate_parcel_graphics(cpp_data.parcels, cpp_data.boundary_points,
                                         FALSE)
           sheet == complete_sheet(config, used_legend_tokens, g)
       IN /\ used_legend_tokens' = sheet.end_tokens
          /\ out' = Returned("generate_complete_svg", "DRAWING", <<sheet>>)
    /\ calls' = calls + 1
    /\ UNCHANGED <<config, cpp_data, page_call, label_call, op_data,
                 tile_labels, text_call, cluster_call,
                   segment_call>>

\* generate_complete_svg(cpp_data, "SGP"): generate_sgp_graphics works on the
\* workarea dimensions and restores width / height before it returns; a
\* ZeroDivisionError leaves them overridden
GenerateSgp ==
    /\ calls < MaxCalls
    /\ LET pts == cpp_data.boundary_points
           wcfg == sgp_working_config(config)
       IN IF pts # <<>> /\ sgp_raises(wcfg, pts)
          THEN /\ config' = wcfg
               /\ used_legend_tokens' = used_legend_tokens
               /\ out' = [Returned("generate_complete_svg", "SGP", <<>>)
                             EXCEPT !.raised = TRUE]
          ELSE LET g == generate_sgp_graphics(cpp_data.stations, pts)
                   sheet == complete_sheet(config, used_legend_tokens, g)
               IN /\ config' = [wcfg EXCEPT !.width = config.width,
                                            !.height = config.height]
                  /\ used_legend_tokens' = sheet.end_tokens
                  /\ out' = Returned("generate_complete_svg", "SGP", <<sheet>>)
    /\ calls' = calls + 1
    /\ UNCHANGED <<cpp_data, page_call, label_call, op_data,
                 tile_labels, text_call, cluster_call,
                   segment_call>>

\* generate_drawings_paginated(cpp_data)
GenerateDrawingsPaginated ==
    /\ calls < MaxCalls
    /\ IF cpp_data.boundary_points = <<>>
       THEN LET g == generate_parcel_graphics(cpp_data.parcels, <<>>, FALSE)
                sheet == complete_sheet(config, used_legend_tokens, g)
            IN /\ used_legend_tokens' = sheet.end_tokens
               /\ out' = Returned("generate_drawings_paginated", "DRAWING", <<sheet>>)
       ELSE LET svgs == ch_tiles(ch_layout(config, cpp_data), cpp_data, 0, 0)
            IN /\ used_legend_tokens' = svgs[Len(svgs)].end_tokens
               /\ out' = Returned("generate_drawings_paginated", "CH", svgs)
    /\ calls' = calls + 1
    /\ UNCHANGED <<config, cpp_data, page_call, label_call, op_data,
                 tile_labels, text_call, cluster_call,
                   segment_call>>

\* render_srzu(cpp_data['srzu'], svg_config): the config object is the one
\* the generator holds (html_graphics_pipeline.py lines 40, 52, 100)
RenderSrzu ==
    /\ calls < MaxCalls
    /\ \E data \in SrzuInputs :
          LET res == render_srzu(config, data)
          IN /\ config' = res.cfg
             /\ out' = Returned("render_srzu", "SRZU", <<res.sheet>>)
    /\ calls' = calls + 1
    /\ UNCHANGED <<used_legend_tokens, cpp_data, page_call, label_call, op_data,
                 tile_labels, text_call, cluster_call,
                   segment_call>>

Next ==
    \/ GenerateScheme
    \/ GenerateDrawing
    \/ GenerateSgp
    \/ GenerateDrawingsPaginated
    \/ RenderSrzu

Spec == Init /\ [][Next]_vars

\* one render call on a freshly constructed generator
RenderOnce ==
    \/ calls = 0 /\ GenerateScheme
    \/ calls = 0 /\ GenerateDrawing
    \/ calls = 0 /\ GenerateSgp
    \/ calls = 0 /\ GenerateDrawingsPaginated
    \/ calls = 0 /\ RenderSrzu

SpecRender == Init /\ [][RenderOnce]_vars

(***************************************************************************)
(* The legend of a sheet: LegendBuilder.build on the tokens of the call    *)
(***************************************************************************)
\* the keys of MAP in the order of sorted()
LegendMapKeys ==
    <<"adjacent", "admin", "boundary-existing", "boundary-new",
      "boundary-uncertain", "contour-part", "geodir-create",
      "geodir-determine", "ggs", "label-parcel", "label-quarter",
      "point-existing", "point-new", "point-removed", "quarters", "target",
      "zone">>

\* LegendBuilder.build(tokens): one row per token that is a key of MAP; the
\* css of a row is "legend-" followed by the token (its text is left out)
legend_build(tokens) ==
    LET keys == SelectSeq(LegendMapKeys, LAMBDA t : t \in tokens)
    IN [k \in 1..Len(keys) |-> [css |-> <<"legend-", keys[k]>>]]

\* the order list of the SRZU legend
srzu_legend_order ==
    {"target", "adjacent", "quarters", "admin", "zone", "label-quarter",
     "label-parcel", "boundary-existing", "boundary-new", "boundary-uncertain"}

\* the tokens the pipeline hands to LegendBuilder.build after the call
legend_tokens ==
    IF out.op = "render_srzu"
    THEN out.sheets[1].end_tokens \cap srzu_legend_order
    ELSE used_legend_tokens

\* the legend step of the pipeline after a render call that left tokens
\* (without tokens the legend is derived from the data instead)
BuildLegend ==
    /\ out.op # "none"
    /\ ~out.raised
    /\ ~out.legend_done
    /\ legend_tokens # {}
    /\ out' = [out EXCEPT !.legend_items = legend_build(legend_tokens),
                          !.legend_done = TRUE]
    /\ UNCHANGED <<config, used_legend_tokens, cpp_data, calls, page_call,
                   label_call, op_data, tile_labels, text_call, cluster_call,
                   segment_call>>

NextLegend ==
    \/ RenderOnce
    \/ BuildLegend

SpecLegend == Init /\ [][NextLegend]_vars

(***************************************************************************)
(* Scale selection as a specification of its own: the content box and the  *)
(* allowed list are drawn afresh for every call                            *)
(***************************************************************************)
PageWidths == {0, 42500, 85000, 85001, 170000, 340001, 900000}
PageHeights == {0, 100000, 138500, 138501, 277000, 600000}
ScaleValues == {250, 500, 1000, 2000}
AllowedLists == UNION {[1..k -> ScaleValues] : k \in 0..MaxAllowed}

IdleData == CppData(<<>>, <<>>, <<>>, <<>>)

\* choose_format_and_scale is about to be called with a content box and a list
InitPage ==
    /\ config = DefaultConfig
    /\ used_legend_tokens = {}
    /\ cpp_data = IdleData
    /\ calls = 0
    /\ out = NoOut
    /\ page_call \in {[NoPageCall EXCEPT !.bbox = <<0, 0, w, h>>, !.allowed = a]
                      : w \in PageWidths, h \in PageHeights, a \in AllowedLists}
    /\ label_call = NoLabelCall
    /\ op_data = NoOpData
    /\ tile_labels = NoTileLabels
    /\ text_call = NoTextCall
    /\ cluster_call = NoClusterCall
    /\ segment_call = NoSegmentCall

ChooseFormatAndScale ==
    /\ ~page_call.done
    /\ LET res == choose_format_and_scale(page_call.bbox, page_call.allowed)
       IN page_call' = [page_call EXCEPT !.format = res.format.name,
                                         !.n = res.n, !.done = TRUE]
    /\ UNCHANGED <<config, used_legend_tokens, cpp_data, calls, out, label_call, op_data,
                 tile_labels, text_call, cluster_call,
                   segment_call>>

SpecPage == InitPage /\ [][ChooseFormatAndScale]_vars

(***************************************************************************)
(* The label formatters as a specification of their own: a block number    *)
(* and two counters are drawn, one formatter is applied to them            *)
(***************************************************************************)
QuartalDigits == {"0", "1", "2", "9"}
QuartalNos == UNION {[1..k -> QuartalDigits] : k \in 1..MaxStrLen}
Counters == 0..MaxCounter

InitLabels ==
    /\ config = DefaultConfig
    /\ used_legend_tokens = {}
    /\ cpp_data = IdleData
    /\ calls = 0
    /\ out = NoOut
    /\ page_call = NoPageCall
    /\ label_call \in {[NoLabelCall EXCEPT !.q = q, !.n = n, !.m = m]
                       : q \in QuartalNos, n \in Counters, m \in Counters}
    /\ op_data = NoOpData
    /\ tile_labels = NoTileLabels
    /\ text_call = NoTextCall
    /\ cluster_call = NoClusterCall
    /\ segment_call = NoSegmentCall

Labelled(fn, text) ==
    /\ label_call.fn = ""
    /\ label_call' = [label_call EXCEPT !.fn = fn, !.text = text]
    /\ UNCHANGED <<config, used_legend_tokens, cpp_data, calls, out, page_call, op_data,
                 tile_labels, text_call, cluster_call,
                   segment_call>>

BaseLabelForClarify ==
    Labelled("base_label_for_clarify", base_label_for_clarify(label_call.q))
NewLabelForSplit ==
    Labelled("new_label_for_split", new_label_for_split(label_call.q, label_call.n))
NewLabelForMerge ==
    Labelled("new_label_for_merge", new_label_for_merge(label_call.n))
PartExisting ==
    Labelled("part_existing", part_existing(label_call.q, label_call.n))
PartNewOnChanged ==
    Labelled("part_new_on_changed", part_new_on_changed(label_call.q, label_call.n))
PartNewOnSplit ==
    Labelled("part_new_on_split",
             part_new_on_split(label_call.q, label_call.n, label_call.m))
PartNewOnMerge ==
    Labelled("part_new_on_merge", part_new_on_merge(label_call.n, label_call.m))

NextLabels ==
    \/ BaseLabelForClarify
    \/ NewLabelForSplit
    \/ NewLabelForMerge
    \/ PartExisting
    \/ PartNewOnChanged
    \/ PartNewOnSplit
    \/ PartNewOnMerge

SpecLabels == InitLabels /\ [][NextLabels]_vars

(***************************************************************************)
(* app/html_graphics_pipeline.py: _apply_operation_labels                  *)
(***************************************************************************)
MaxParcels == 2

LabelKinds == <<"clarify", "split", "merge", "part_existing",
                "part_new_changed", "part_new_split", "part_new_merge">>

\* the test that makes the loop skip a parcel (lines 215-221)
has_valid_designation_no_clarify(label) ==
    label # <<>> /\ \E i \in 2..Len(LabelKinds) : validate_label(label, LabelKinds[i])
has_valid_designation(label) ==
    label # <<>> /\ \E i \in 1..Len(LabelKinds) : validate_label(label, LabelKinds[i])

\* last_block_from_cadastral(p)
last_block_from_cadastral(p) == LastBlock(p.cadastral_number, ":")

\* str(op).upper(), with 'CLARIFY' for a missing or empty operation
operation_upper(op) ==
    IF op = "" THEN "CLARIFY"
    ELSE IF op = "split" THEN "SPLIT"
    ELSE op

\* x or dflt
OrElse(x, dflt) == IF x = <<>> THEN dflt ELSE x

\* the body of the loop for a parcel that is not skipped: the designation
\* and the counters after it
op_label(p, op, has_xml, xml_count, counter_new, counter_parts) ==
    LET last == last_block_from_cadastral(p)
        merged == [d |-> new_label_for_merge(counter_new + 1),
                   cn |-> counter_new + 1, cp |-> counter_parts]
        clarified == [d |-> base_label_for_clarify(OrElse(last, ZU)),
                      cn |-> counter_new, cp |-> counter_parts]
    IN IF op = "CLARIFY" THEN (IF has_xml THEN clarified ELSE merged)
       ELSE IF op \in {"SPLIT", "ALLOT"}
       THEN (IF xml_count = 1
             THEN [d |-> new_label_for_split(OrElse(last, <<"0">>), counter_new + 1),
                   cn |-> counter_new + 1, cp |-> counter_parts]
             ELSE merged)
       ELSE IF op \in {"MERGE", "REDISTRIBUTE"} THEN merged
       ELSE IF op = "PARTS"
       THEN [d |-> part_new_on_changed(OrElse(last, <<"0">>), counter_parts + 1),
             cn |-> counter_new, cp |-> counter_parts + 1]
       ELSE (IF has_xml THEN clarified ELSE merged)

\* for p in parcels: ..., from parcel i on
RECURSIVE label_parcels(_, _, _, _, _, _, _)
label_parcels(parcels, i, op, has_xml, xml_count, counter_new, counter_parts) ==
    IF i > Len(parcels) THEN parcels
    ELSE IF has_valid_designation(parcels[i].designation)
    THEN label_parcels(parcels, i + 1, op, has_xml, xml_count,
                       counter_new, counter_parts)
    ELSE LET r == op_label(parcels[i], op, has_xml, xml_count,
                           counter_new, counter_parts)
         IN label_parcels([parcels EXCEPT ![i].designation = r.d], i + 1,
                          op, has_xml, xml_count, r.cn, r.cp)

apply_operation_labels(data) ==
    label_parcels(data.parcels, 1, operation_upper(data.operation),
                  data.has_parcel_xml, data.parcel_xml_count, 0, 0)

\* cadastral numbers: a numeric last block, a last block that is no number,
\* none at all
CadNumbers == {<<"0", "4", ":", "2", "8">>, <<"0", "4", ":", "2", "a">>, <<>>}
\* designations: none, one of the clarify grammar, one of no grammar, one of
\* the merge grammar
Designations == {<<>>, <<":", "7">>, <<"x">>, <<":", "cyr_Z", "cyr_U", "1">>}
OpParcels == [cadastral_number : CadNumbers, designation : Designations]
Operations == {"", "CLARIFY", "split", "ALLOT", "MERGE", "REDISTRIBUTE",
               "PARTS", "OTHER"}

InitOpLabels ==
    /\ config = DefaultConfig
    /\ used_legend_tokens = {}
    /\ cpp_data = IdleData
    /\ calls = 0
    /\ out = NoOut
    /\ page_call = NoPageCall
    /\ label_call = NoLabelCall
    /\ op_data \in {[NoOpData EXCEPT !.parcels = ps, !.operation = op,
                                     !.has_parcel_xml = hx, !.parcel_xml_count = xc]
                    : ps \in UNION {[1..k -> OpParcels] : k \in 0..MaxParcels},
                      op \in Operations, hx \in BOOLEAN, xc \in 0..2}
    /\ tile_labels = NoTileLabels
    /\ text_call = NoTextCall
    /\ cluster_call = NoClusterCall
    /\ segment_call = NoSegmentCall

\* _apply_operation_labels(cpp_data): the parcels are relabelled in place
ApplyOperationLabels ==
    /\ calls < MaxCalls
    /\ op_data' = [op_data EXCEPT !.parcels = apply_operation_labels(op_data),
                                  !.before = op_data.parcels,
                                  !.ch_label = <<>>]
    /\ calls' = calls + 1
    /\ UNCHANGED <<config, used_legend_tokens, cpp_data, out, page_call, label_call,
                 tile_labels, text_call, cluster_call,
                   segment_call>>

\* the parcel label of a CH tile, drawn from the relabelled parcels
\* (generate_drawings_paginated, lines 1801-1807)
DrawChParcelLabel ==
    /\ calls > 0
    /\ op_data.parcels # <<>>
    /\ op_data.ch_label = <<>>
    /\ op_data' = [op_data EXCEPT
                      !.ch_label = <<build_parcel_label(op_data.parcels[1])>>]
    /\ UNCHANGED <<config, used_legend_tokens, cpp_data, calls, out, page_call,
                   label_call, tile_labels, text_call, cluster_call,
                   segment_call>>

NextOpLabels ==
    \/ ApplyOperationLabels
    \/ DrawChParcelLabel

SpecOpLabels == InitOpLabels /\ [][NextOpLabels]_vars

(***************************************************************************)
(* Placement of point labels: _detect_point_clusters,                      *)
(* _spiral_search_for_label, _find_position_near_point and the label       *)
(* loops of generate_drawings_paginated and generate_sgp_graphics.         *)
(* Lengths in this section are tenths of a pixel; a quotient, a square     *)
(* root, a sine or a cosine is rounded to that unit.                       *)
(***************************************************************************)
MaxTilePts == 3

Abs(a) == IF a < 0 THEN 0 - a ELSE a
\* a / b to the nearest integer, b > 0
RoundDiv(a, b) == (2 * a + b) \div (2 * b)

RECURSIVE isqrt_from(_, _)
isqrt_from(n, r) ==
    IF r * r <= n THEN r ELSE isqrt_from(n, (r + n \div r) \div 2)
\* n ** 0.5, rounded down
isqrt(n) == IF n = 0 THEN 0 ELSE isqrt_from(n, Min2(n, 46340))

\* math.sin(2 * pi * a / b) * len for 0 <= a <= b, by the rational
\* approximation 16t(1-t) / (5 - 4t(1-t)) of sin(pi * t) (error below 0.002)
sin_turn(a, b, len) ==
    LET h == IF 2 * a <= b THEN 2 * a ELSE 2 * a - b
        sgn == IF 2 * a <= b THEN 1 ELSE -1
        q == h * (b - h)
        den == 5 * b * b - 4 * q
        mag == RoundDiv(16 * q * len, den)
    IN sgn * mag
\* math.cos(2 * pi * a / b) * len
cos_turn(a, b, len) == sin_turn((4 * a + b) % (4 * b), 4 * b, len)

\* mm_to_px of hundredths of a millimetre
mm100_to_px(mm100) == RoundDiv(mm100 * dpi * 10, 2540)
\* 1.5 mm each, in hundredths of a millimetre
created_point_radius == 150
existing_point_radius == 150
POINT_DIAMETER_MM == 150

\* _bboxes_intersect on rectangles <<x_min, y_min, x_max, y_max>>
bboxes_intersect(b1, b2) ==
    ~(b1[3] < b2[1] \/ b1[1] > b2[3] \/ b1[4] < b2[2] \/ b1[2] > b2[4])

\* _point_inside_polygon (ray casting); the division by yj - yi is cleared
\* by multiplying with it
point_inside_polygon(x, y, poly) ==
    LET n == Len(poly)
        prev(i) == IF i = 1 THEN n ELSE i - 1
        crosses(i) ==
            LET xi == poly[i][1]
                yi == poly[i][2]
                xj == poly[prev(i)][1]
                yj == poly[prev(i)][2]
                d == yj - yi
            IN /\ (yi > y) # (yj > y)
               /\ IF d > 0 THEN (x - xi) * d < (xj - xi) * (y - yi)
                  ELSE (x - xi) * d > (xj - xi) * (y - yi)
    IN Cardinality({i \in 1..n : crosses(i)}) % 2 = 1

\* _point_to_segment_distance
point_to_segment_distance(px, py, x1, y1, x2, y2) ==
    LET dx == x2 - x1
        dy == y2 - y1
        len2 == dx * dx + dy * dy
        dot == (px - x1) * dx + (py - y1) * dy
    IN IF len2 = 0 THEN isqrt((px - x1) * (px - x1) + (py - y1) * (py - y1))
       ELSE IF dot <= 0
            THEN isqrt((px - x1) * (px - x1) + (py - y1) * (py - y1))
       ELSE IF dot >= len2
            THEN isqrt((px - x2) * (px - x2) + (py - y2) * (py - y2))
       ELSE RoundDiv(Abs((px - x1) * dy - (py - y1) * dx), Max2(1, isqrt(len2)))

\* _distance_to_polygon_edge; float('inf') for an empty polygon
Infinity == 1000000
distance_to_polygon_edge(x, y, poly) ==
    LET n == Len(poly)
    IN IF n = 0 THEN Infinity
       ELSE SetMin({point_to_segment_distance(x, y, poly[i][1], poly[i][2],
                                              poly[(i % n) + 1][1],
                                              poly[(i % n) + 1][2])
                    : i \in 1..n})

\* create_label_rect: the wrapper rectangle centred at (cx, cy), padding 4
search_padding == 40
create_label_rect(cx, cy, label, fs) ==
    LET half_w == Len(label) * fs * 3
        half_h == fs * 5
    IN <<cx - half_w - search_padding, cy - half_h - search_padding,
         cx + half_w + search_padding, cy + half_h + search_padding>>

hits_labels_or_buffers(rect, buffers, labels) ==
    \/ \E k \in 1..Len(labels) : bboxes_intersect(rect, labels[k].bbox)
    \/ \E k \in 1..Len(buffers) : bboxes_intersect(rect, buffers[k])

\* has_intersections of _spiral_search_for_label: labels, object buffers,
\* centre inside the polygon, centre nearer than 6 px to its edge
edge_clearance == 60
spiral_has_intersections(rect, poly, buffers, labels) ==
    LET cx == (rect[1] + rect[3]) \div 2
        cy == (rect[2] + rect[4]) \div 2
    IN \/ hits_labels_or_buffers(rect, buffers, labels)
       \/ point_inside_polygon(cx, cy, poly)
       \/ distance_to_polygon_edge(cx, cy, poly) < edge_clearance

max_radius == 1500
step_size == 20
\* max(8, int(2 * math.pi * radius / 10)) for a radius in tenths of a pixel
num_points(radius) ==
    IF radius = 0 THEN 1 ELSE Max2(8, (628318 * (radius \div 10)) \div 1000000)

spiral_candidate(sx, sy, radius, i) ==
    IF radius = 0 THEN <<sx, sy>>
    ELSE <<sx + cos_turn(i, num_points(radius), radius),
           sy + sin_turn(i, num_points(radius), radius)>>

\* the position returned when every candidate conflicts
spiral_fallback(sx, sy) == <<sx + max_radius, sy>>

\* for radius in range(0, max_radius, step_size): for i in range(num_points)
RECURSIVE spiral_from(_, _, _, _, _, _, _, _)
spiral_from(radius, sx, sy, label, fs, poly, buffers, labels) ==
    IF radius >= max_radius
    THEN [pos |-> spiral_fallback(sx, sy), accepted |-> FALSE]
    ELSE LET free == {i \in 0..(num_points(radius) - 1) :
                        LET c == spiral_candidate(sx, sy, radius, i)
                        IN ~spiral_has_intersections(
                               create_label_rect(c[1], c[2], label, fs),
                               poly, buffers, labels)}
         IN IF free # {}
            THEN [pos |-> spiral_candidate(sx, sy, radius, SetMin(free)),
                  accepted |-> TRUE]
            ELSE spiral_from(radius + step_size, sx, sy, label, fs, poly,
                             buffers, labels)

spiral_search_for_label(sx, sy, label, fs, poly, buffers, labels) ==
    spiral_from(0, sx, sy, label, fs, poly, buffers, labels)

\* is_inside_polygon of _find_position_near_point: centre or a corner inside
rect_inside_polygon(rect, poly) ==
    \/ point_inside_polygon((rect[1] + rect[3]) \div 2,
                            (rect[2] + rect[4]) \div 2, poly)
    \/ \E c \in {<<rect[1], rect[2]>>, <<rect[3], rect[2]>>,
                 <<rect[3], rect[4]>>, <<rect[1], rect[4]>>} :
           point_inside_polygon(c[1], c[2], poly)

near_candidates(sx, sy) ==
    <<<<sx, sy>>, <<sx + 80, sy>>, <<sx, sy - 80>>, <<sx - 80, sy>>,
      <<sx, sy + 80>>>>

find_position_near_point(sx, sy, label, fs, buffers, labels, poly) ==
    LET cands == near_candidates(sx, sy)
        free == {k \in 1..Len(cands) :
                    LET r == create_label_rect(cands[k][1], cands[k][2], label, fs)
                    IN ~hits_labels_or_buffers(r, buffers, labels)
                       /\ ~rect_inside_polygon(r, poly)}
    IN IF free # {} THEN [pos |-> cands[SetMin(free)], accepted |-> TRUE]
       ELSE [pos |-> <<sx, sy>>, accepted |-> FALSE]

\* _detect_point_clusters: each point not yet used opens a cluster and takes
\* every later unused point within cluster_radius of it
cluster_of(point_data, i, used, cluster_radius) ==
    {i} \cup {j \in (i + 1)..Len(point_data) :
                /\ j \notin used
                /\ (point_data[i].x_rel - point_data[j].x_rel)
                     * (point_data[i].x_rel - point_data[j].x_rel)
                   + (point_data[i].y_rel - point_data[j].y_rel)
                     * (point_data[i].y_rel - point_data[j].y_rel)
                   <= cluster_radius * cluster_radius}

RECURSIVE clusters_from(_, _, _, _)
clusters_from(point_data, i, used, cluster_radius) ==
    IF i > Len(point_data) THEN <<>>
    ELSE IF i \in used
         THEN clusters_from(point_data, i + 1, used, cluster_radius)
    ELSE LET c == cluster_of(point_data, i, used, cluster_radius)
         IN <<c>> \o clusters_from(point_data, i + 1, used \cup c, cluster_radius)

detect_point_clusters(point_data, cluster_radius) ==
    clusters_from(point_data, 1, {}, cluster_radius)

\* label_place.py: _ccw, _intersect, _line_intersects_polylines, place_label
ccw(ax, ay, bx, by, cx, cy) == (cy - ay) * (bx - ax) > (by - ay) * (cx - ax)
\* a test that also answers true when the segments only touch
intersect_touching(a1, a2, b1, b2) ==
    LET side(p, q, r) == (q[1] - p[1]) * (r[2] - p[2])
                             - (q[2] - p[2]) * (r[1] - p[1])
        apart(u, v) == (u <= 0 /\ v >= 0) \/ (u >= 0 /\ v <= 0)
    IN /\ apart(side(b1, b2, a1), side(b1, b2, a2))
       /\ apart(side(a1, a2, b1), side(a1, a2, b2))
intersect(a1, a2, b1, b2) ==
    /\ ccw(a1[1], a1[2], b1[1], b1[2], b2[1], b2[2])
         # ccw(a2[1], a2[2], b1[1], b1[2], b2[1], b2[2])
    /\ ccw(a1[1], a1[2], a2[1], a2[2], b1[1], b1[2])
         # ccw(a1[1], a1[2], a2[1], a2[2], b2[1], b2[2])
line_intersects_polylines(p1, p2, polylines) ==
    \E k \in 1..Len(polylines) : \E s \in 1..(Len(polylines[k]) - 1) :
        intersect(p1, p2, polylines[k][s], polylines[k][s + 1])

quadrant_candidates(ax, ay) ==
    LET d == mm100_to_px(200)
    IN <<<<ax + d, ay - d>>, <<ax - d, ay - d>>, <<ax - d, ay + d>>,
         <<ax + d, ay + d>>>>

place_label(ax, ay, avoid, prefer_center) ==
    LET cands == quadrant_candidates(ax, ay)
        free == {k \in 1..4 :
                    ~line_intersects_polylines(<<ax, ay>>, cands[k], avoid)}
        hyp(k) == isqrt((cands[k][1] - ax) * (cands[k][1] - ax)
                        + (cands[k][2] - ay) * (cands[k][2] - ay))
    IN IF prefer_center
          /\ ~line_intersects_polylines(<<ax, ay>>, <<ax, ay>>, avoid)
       THEN [pos |-> <<ax, ay>>, leader |-> FALSE, accepted |-> TRUE]
       ELSE IF free # {}
       THEN [pos |-> cands[SetMin(free)],
             leader |-> hyp(SetMin(free)) > mm100_to_px(150),
             accepted |-> TRUE]
       ELSE [pos |-> cands[1], leader |-> TRUE, accepted |-> FALSE]

\* get_label_bbox of the CH tile: anchored at the text origin, padding 6
ch_label_padding == 60
ch_get_label_bbox(x, y, label, fs) ==
    <<x - ch_label_padding, y - fs * 10 - ch_label_padding,
      x + Len(label) * fs * 6 + ch_label_padding, y + ch_label_padding>>

\* get_point_bbox: CH pads the radius by 6 px, SGP by 8 px
point_bbox(x, y, radius, pad) ==
    <<x - radius - pad, y - radius - pad, x + radius + pad, y + radius + pad>>

\* get_line_buffer_bbox of the CH tile, buffer_width 8
ch_line_buffer_bbox(p, q) ==
    <<Min2(p[1], q[1]) - 80, Min2(p[2], q[2]) - 80,
      Max2(p[1], q[1]) + 80, Max2(p[2], q[2]) + 80>>

\* get_boundary_buffer_zones of generate_sgp_graphics: the box around the
\* segment widened by 8 px across its direction
sgp_line_buffer_bbox(p, q) ==
    LET dx == q[1] - p[1]
        dy == q[2] - p[2]
        length == isqrt(dx * dx + dy * dy)
        perp_x == IF length > 0 THEN RoundDiv(Abs(dy) * 80, length) ELSE 80
        perp_y == IF length > 0 THEN RoundDiv(Abs(dx) * 80, length) ELSE 80
    IN <<Min2(p[1], q[1]) - perp_x, Min2(p[2], q[2]) - perp_y,
         Max2(p[1], q[1]) + perp_x, Max2(p[2], q[2]) + perp_y>>

\* the eight directions that stand for a fan angle (atan2 of the cluster
\* centre plus a share of 120 degrees), in thousandths
FanDirections ==
    {<<1000, 0>>, <<707, 707>>, <<0, 1000>>, <<-707, 707>>,
     <<-1000, 0>>, <<-707, -707>>, <<0, -1000>>, <<707, -707>>}

\* the direction from the centre outwards, <<1, 0>> within 0.1 px of it
outward_direction(x, y, cx, cy) ==
    LET dx == x - cx
        dy == y - cy
        dist == isqrt(dx * dx + dy * dy)
    IN IF dist > 1
       THEN <<(dx * 1000) \div dist, (dy * 1000) \div dist>>
       ELSE <<1000, 0>>

\* point_data of a sheet from its points <<x, y, kind>> in sheet pixels:
\* CH numbers new and other points apart, SGP numbers them by position
point_data_of(composer, pts, tile_x0, tile_y0) ==
    [i \in 1..Len(pts) |->
        LET new == pts[i].kind \in NewKinds
            num == IF composer = "CH" THEN CountKinds(pts, i, new) ELSE i
        IN [x_abs |-> pts[i].x, y_abs |-> pts[i].y,
            x_rel |-> pts[i].x - tile_x0, y_rel |-> pts[i].y - tile_y0,
            kind |-> pts[i].kind,
            label |-> IF new THEN <<"cyr_n">> \o IntToStr(num) ELSE IntToStr(num),
            color |-> IF new THEN red ELSE black,
            radius_px |-> IF composer = "CH"
                          THEN mm100_to_px(IF new THEN created_point_radius
                                           ELSE existing_point_radius)
                          ELSE mm100_to_px(POINT_DIAMETER_MM \div 2)]]

AbsPoints(pd) == [j \in 1..Len(pd) |-> <<pd[j].x_abs, pd[j].y_abs>>]
RelPoints(pd) == [j \in 1..Len(pd) |-> <<pd[j].x_rel, pd[j].y_rel>>]

\* polygon_centroid of the CH tile; the middle of the bounding box in SGP
label_centre(composer, pd) ==
    LET n == Len(pd)
        xs == {pd[j].x_abs : j \in 1..n}
        ys == {pd[j].y_abs : j \in 1..n}
    IN IF composer = "CH"
       THEN <<SumX([j \in 1..n |-> [x |-> pd[j].x_abs, y |-> pd[j].y_abs]]) \div n,
              SumY([j \in 1..n |-> [x |-> pd[j].x_abs, y |-> pd[j].y_abs]]) \div n>>
       ELSE <<(SetMin(xs) + SetMax(xs)) \div 2, (SetMin(ys) + SetMax(ys)) \div 2>>

\* all_object_buffers = point_bboxes + boundary_bboxes
all_object_buffers(composer, pd) ==
    LET n == Len(pd)
        abs == AbsPoints(pd)
    IN IF composer = "CH"
       THEN [j \in 1..n |-> point_bbox(pd[j].x_rel, pd[j].y_rel,
                                       pd[j].radius_px, 60)]
            \o [j \in 1..n |-> ch_line_buffer_bbox(abs[j], abs[(j % n) + 1])]
       ELSE [j \in 1..n |-> point_bbox(pd[j].x_rel, pd[j].y_rel,
                                       pd[j].radius_px, 80)]
            \o [j \in 1..n |-> sgp_line_buffer_bbox(abs[j], abs[(j % n) + 1])]

cluster_radius_px == 300
\* the directions a label may start in: the fan angle of its cluster, or
\* the direction away from the centre for a point alone
start_directions(composer, pd, k) ==
    LET clusters == detect_point_clusters(pd, cluster_radius_px)
        centre == label_centre(composer, pd)
    IN IF \E c \in 1..Len(clusters) :
              k \in clusters[c] /\ Cardinality(clusters[c]) > 1
       THEN FanDirections
       ELSE {outward_direction(pd[k].x_abs, pd[k].y_abs, centre[1], centre[2])}

\* one pass of the placement loop for point k starting in direction dir:
\* the position, the rectangle the search evaluated there and whether it
\* accepted it, and the box appended to label_positions
place_point_label(composer, pd, labels, k, dir) ==
    LET base_offset == pd[k].radius_px + (IF composer = "CH" THEN 80 ELSE 40)
        start_x == pd[k].x_rel + (dir[1] * base_offset) \div 1000
        start_y == pd[k].y_rel + (dir[2] * base_offset) \div 1000
        buffers == all_object_buffers(composer, pd)
        found == IF composer = "CH"
                 THEN spiral_search_for_label(start_x, start_y, pd[k].label,
                                              font_size, RelPoints(pd), buffers,
                                              labels)
                 ELSE find_position_near_point(start_x, start_y, pd[k].label,
                                               font_size, buffers, labels,
                                               AbsPoints(pd))
    IN [accepted |-> found.accepted,
        start |-> <<start_x, start_y>>,
        rect |-> create_label_rect(found.pos[1], found.pos[2], pd[k].label,
                                   font_size),
        position |->
            [bbox |-> IF composer = "CH"
                      THEN ch_get_label_bbox(found.pos[1], found.pos[2],
                                             pd[k].label, font_size)
                      ELSE create_label_rect(found.pos[1], found.pos[2],
                                             pd[k].label, font_size),
             x |-> found.pos[1], y |-> found.pos[2]]]

\* the second loop: one circle and one text per point, at the position found
\* for it; SGP writes the label of a REMOVED point without _create_text
point_texts_accepted_only(composer, pd, positions, tested) ==
    LET keep == SelectSeq([k \in 1..Len(pd) |-> k],
                          LAMBDA k : tested[k].accepted)
    IN [m \in 1..Len(keep) |->
           [x |-> positions[keep[m]].x, y |-> positions[keep[m]].y,
            label |-> pd[keep[m]].label, fill |-> pd[keep[m]].color,
            font_size |-> create_text_font(font_size), leader |-> FALSE]]
point_texts(composer, pd, positions, tested) ==
    [k \in 1..Len(pd) |->
        [x |-> positions[k].x, y |-> positions[k].y,
         label |-> pd[k].label, fill |-> pd[k].color,
         font_size |-> IF composer = "SGP" /\ pd[k].kind = "REMOVED"
                       THEN font_size ELSE create_text_font(font_size),
         leader |-> FALSE]]

\* sheets whose labels are placed: points in sheet pixels (tenths)
TilePos ==
    [alone |-> <<<<3000, 2600>>>>,
     apart |-> <<<<1000, 1000>>, <<4000, 2000>>>>,
     close |-> <<<<1000, 1000>>, <<1100, 1000>>>>,
     boxed |-> <<<<1000, 1000>>, <<9000, 9000>>, <<5000, 4000>>>>]
TileShapes == {"alone", "apart", "close", "boxed"}
\* CH treats every kind but NEW / CREATED alike, SGP tells REMOVED apart
TileKinds(composer) ==
    IF composer = "CH" THEN {"EXISTING", "NEW"} ELSE {"EXISTING", "NEW", "REMOVED"}
TilePointLists(composer) ==
    UNION {{[i \in 1..Len(TilePos[s]) |->
                [x |-> TilePos[s][i][1], y |-> TilePos[s][i][2], kind |-> kd[i]]]
            : kd \in [1..Len(TilePos[s]) -> TileKinds(composer)]}
           : s \in {sh \in TileShapes : Len(TilePos[sh]) <= MaxTilePts}}
TileOrigins == {<<0, 0>>, <<6880, 0>>}
\* polylines a SRZU label must not cross: none, a ring closed around the
\* anchor (3000, 2600), or a line that passes through that anchor
AvoidLists ==
    {<<>>,
     <<<<<<2950, 2550>>, <<3050, 2550>>, <<3050, 2650>>, <<2950, 2650>>,
         <<2950, 2550>>>>>>,
     <<<<<<2900, 2600>>, <<3100, 2600>>>>>>}

\* the labels of a SRZU sheet after to_px_local
SrzuLabelKinds == {"quarter", "parcel_label", "parcel", "zone"}
SrzuLabelLists ==
    UNION {{[i \in 1..Len(TilePos[s]) |->
                [x_rel |-> TilePos[s][i][1], y_rel |-> TilePos[s][i][2],
                 kind |-> kd[i], label |-> <<":", "cyr_Z", "cyr_U">>]]
            : kd \in [1..Len(TilePos[s]) -> SrzuLabelKinds]}
           : s \in {sh \in {"alone", "apart"} : Len(TilePos[sh]) <= MaxTilePts}}

InitTileLabels ==
    /\ config = DefaultConfig
    /\ used_legend_tokens = {}
    /\ cpp_data = IdleData
    /\ calls = 0
    /\ out = NoOut
    /\ page_call = NoPageCall
    /\ label_call = NoLabelCall
    /\ op_data = NoOpData
    /\ tile_labels \in
         {[NoTileLabels EXCEPT !.composer = "CH",
                               !.point_data = point_data_of("CH", pts, o[1], o[2])]
          : pts \in TilePointLists("CH"), o \in TileOrigins}
         \cup {[NoTileLabels EXCEPT !.composer = "SGP",
                                    !.point_data = point_data_of("SGP", pts, 0, 0)]
               : pts \in TilePointLists("SGP")}
         \cup {[NoTileLabels EXCEPT !.composer = "SRZU", !.point_data = ls,
                                    !.avoid = av]
               : ls \in SrzuLabelLists, av \in AvoidLists}
    /\ text_call = NoTextCall
    /\ cluster_call = NoClusterCall
    /\ segment_call = NoSegmentCall

LabelsPlaced == tile_labels.i = Len(tile_labels.point_data)

PlaceLabel(composer) ==
    /\ tile_labels.composer = composer
    /\ ~LabelsPlaced
    /\ \E dir \in start_directions(composer, tile_labels.point_data,
                                   tile_labels.i + 1) :
          LET p == place_point_label(composer, tile_labels.point_data,
                                     tile_labels.label_positions,
                                     tile_labels.i + 1, dir)
          IN tile_labels' =
                [tile_labels EXCEPT
                    !.i = @ + 1,
                    !.label_positions = Append(@, p.position),
                    !.tested = Append(@, [rect |-> p.rect,
                                          accepted |-> p.accepted,
                                          start |-> p.start,
                                          dir |-> dir])]
    /\ UNCHANGED <<config, used_legend_tokens, cpp_data, calls, out, page_call,
                   label_call, op_data, text_call, cluster_call,
                   segment_call>>

\* the placement loop of a CH tile (lines 1756-1790)
PlaceChLabel == PlaceLabel("CH")
\* the placement loop of the SGP sheet (lines 1296-1335)
PlaceSgpLabel == PlaceLabel("SGP")

\* the drawing loop (lines 1792-1799, 1337-1355)
DrawPointLabels ==
    /\ tile_labels.composer \in {"CH", "SGP"}
    /\ LabelsPlaced
    /\ ~tile_labels.drawn
    /\ tile_labels' =
          [tile_labels EXCEPT
              !.texts = point_texts(tile_labels.composer, tile_labels.point_data,
                                    tile_labels.label_positions,
                                    tile_labels.tested),
              !.drawn = TRUE]
    /\ UNCHANGED <<config, used_legend_tokens, cpp_data, calls, out, page_call,
                   label_call, op_data, text_call, cluster_call,
                   segment_call>>

\* one pass of the label loop of render_srzu (lines 368-412): place_label,
\* then the leader and the text
PlaceSrzuLabel ==
    /\ tile_labels.composer = "SRZU"
    /\ ~LabelsPlaced
    /\ LET pd == tile_labels.point_data[tile_labels.i + 1]
           p == place_label(pd.x_rel, pd.y_rel, tile_labels.avoid,
                            pd.kind = "parcel_label")
       IN tile_labels' =
             [tile_labels EXCEPT
                 !.i = @ + 1,
                 !.tested = Append(@, [rect |-> <<>>, accepted |-> p.accepted]),
                 !.texts = Append(@, [x |-> p.pos[1], y |-> p.pos[2],
                                      label |-> pd.label,
                                      leader |-> p.leader])]
    /\ UNCHANGED <<config, used_legend_tokens, cpp_data, calls, out, page_call,
                   label_call, op_data, text_call, cluster_call,
                   segment_call>>

NextTileLabels ==
    \/ PlaceChLabel
    \/ PlaceSgpLabel
    \/ DrawPointLabels
    \/ PlaceSrzuLabel

SpecTileLabels == InitTileLabels /\ [][NextTileLabels]_vars

(***************************************************************************)
(* The font size of the text elements: every place of the composers that   *)
(* writes a <text>, for a configuration c = [font_size, min_font_pt, dpi]. *)
(***************************************************************************)
\* int(round(pt * dpi / 72))
pt_to_px(pt, d) == RoundDiv(pt * d, 72)

\* _create_text and _place_label: font_size or config.font_size, raised to
\* int(round(min_font_pt * (96.0 / 72.0)))
create_text(c, fs) ==
    LET font_sz == IF fs # 0 THEN fs ELSE c.font_size
        min_font_px == pt_to_px(c.min_font_pt, 96)
    IN IF font_sz < min_font_px THEN min_font_px ELSE font_sz

\* _draw_point
draw_point_font(c) == Max2(c.font_size, pt_to_px(c.min_font_pt, 96))

\* the label of a REMOVED point of generate_sgp_graphics: font_size_px as is
sgp_removed_label_font(c) == c.font_size

\* font_px_for_scale of render_srzu
font_px_for_scale(n) ==
    IF n <= 500 THEN 16 ELSE IF n <= 1000 THEN 14 ELSE IF n <= 2000 THEN 12 ELSE 11

\* the font size render_srzu writes for a label of the given kind
srzu_label_font(c, kind, scale_den) ==
    LET fs_px == Max2(c.font_size, font_px_for_scale(scale_den))
        fs_q == IF kind = "quarter" THEN Max2(fs_px, pt_to_px(18, c.dpi)) ELSE fs_px
    IN IF kind = "quarter_label" THEN Max2(fs_q, pt_to_px(20, c.dpi))
       ELSE IF kind = "parcel_label" THEN Max2(8, pt_to_px(10, c.dpi))
       ELSE fs_q

\* the writers and the font_size argument each is called with
\* (0 stands for None)
TextWriters ==
    {"create_text", "place_label", "draw_point", "sgp_removed",
     "srzu_quarter", "srzu_quarter_label", "srzu_parcel_label", "srzu_zone",
     "srzu_parcel"}
RequestedSizes(c, writer) ==
    IF writer = "create_text"
    THEN {c.font_size, c.font_size - 1, c.font_size - 2, 16, 0}
    ELSE IF writer = "place_label" THEN {16}
    ELSE {0}
ScaleDens(writer) ==
    IF writer \in {"srzu_quarter", "srzu_quarter_label", "srzu_parcel_label",
                   "srzu_zone", "srzu_parcel"}
    THEN {500, 1000, 2000, 5000} ELSE {0}

written_font(t) ==
    LET c == [font_size |-> t.font_size, min_font_pt |-> t.min_font_pt,
              dpi |-> t.dpi]
    IN IF t.writer \in {"create_text", "place_label"}
       THEN create_text(c, t.requested)
       ELSE IF t.writer = "draw_point" THEN draw_point_font(c)
       ELSE IF t.writer = "sgp_removed" THEN sgp_removed_label_font(c)
       ELSE IF t.writer = "srzu_quarter"
            THEN srzu_label_font(c, "quarter", t.scale_den)
       ELSE IF t.writer = "srzu_quarter_label"
            THEN srzu_label_font(c, "quarter_label", t.scale_den)
       ELSE IF t.writer = "srzu_parcel_label"
            THEN srzu_label_font(c, "parcel_label", t.scale_den)
       ELSE IF t.writer = "srzu_zone"
            THEN srzu_label_font(c, "zone", t.scale_den)
       ELSE srzu_label_font(c, "parcel", t.scale_den)

\* configurations: SVGConfig(font_size=..., min_font_pt=..., dpi=...)
FontSizes == {5, 11, 20}
MinFontPts == {7, 12}
Dpis == {96, 300}

InitText ==
    /\ config = DefaultConfig
    /\ used_legend_tokens = {}
    /\ cpp_data = IdleData
    /\ calls = 0
    /\ out = NoOut
    /\ page_call = NoPageCall
    /\ label_call = NoLabelCall
    /\ op_data = NoOpData
    /\ tile_labels = NoTileLabels
    /\ text_call \in
         {[NoTextCall EXCEPT !.writer = w, !.font_size = c.font_size,
                             !.min_font_pt = c.min_font_pt, !.dpi = c.dpi,
                             !.requested = rq, !.scale_den = sd]
          : <<w, c, rq, sd>> \in
              {q \in TextWriters
                      \X [font_size : FontSizes, min_font_pt : MinFontPts,
                          dpi : Dpis]
                      \X (0..20) \X {0, 500, 1000, 2000, 5000} :
                  /\ q[3] \in RequestedSizes(q[2], q[1])
                  /\ q[4] \in ScaleDens(q[1])}}
    /\ cluster_call = NoClusterCall
    /\ segment_call = NoSegmentCall

\* one <text> element is written
WriteText ==
    /\ ~text_call.done
    /\ text_call' = [text_call EXCEPT !.written = written_font(text_call),
                                      !.done = TRUE]
    /\ UNCHANGED <<config, used_legend_tokens, cpp_data, calls, out, page_call,
                   label_call, op_data, tile_labels, cluster_call,
                   segment_call>>

SpecText == InitText /\ [][WriteText]_vars

(***************************************************************************)
(* _detect_point_clusters on its own: point lists in pixels                *)
(***************************************************************************)
MaxClusterPts == 3
ClusterXs == {0, 25, 50, 100}
ClusterYs == {0, 40}
ClusterPointLists ==
    UNION {[1..n -> [x_rel : ClusterXs, y_rel : ClusterYs]] : n \in 0..MaxClusterPts}

InitClusters ==
    /\ config = DefaultConfig
    /\ used_legend_tokens = {}
    /\ cpp_data = IdleData
    /\ calls = 0
    /\ out = NoOut
    /\ page_call = NoPageCall
    /\ label_call = NoLabelCall
    /\ op_data = NoOpData
    /\ tile_labels = NoTileLabels
    /\ text_call = NoTextCall
    /\ cluster_call \in {[NoClusterCall EXCEPT !.point_data = pd,
                                               !.cluster_radius = 30]
                         : pd \in ClusterPointLists}
    /\ segment_call = NoSegmentCall

\* clusters = self._detect_point_clusters(point_data, cluster_radius=30)
DetectPointClusters ==
    /\ ~cluster_call.done
    /\ cluster_call' =
          [cluster_call EXCEPT
              !.clusters = detect_point_clusters(cluster_call.point_data,
                                                 cluster_call.cluster_radius),
              !.done = TRUE]
    /\ UNCHANGED <<config, used_legend_tokens, cpp_data, calls, out, page_call,
                   label_call, op_data, tile_labels, text_call,
                   segment_call>>

SpecClusters == InitClusters /\ [][DetectPointClusters]_vars

(***************************************************************************)
(* The two segment intersection tests, each applied once to a pair of      *)
(* segments with integral end points.                                      *)
(***************************************************************************)
MaxSegX == 2
MaxSegY == 1

\* SVGGraphicsGenerator._segments_intersect and its inner orient
orient(px, py, qx, qy, rx, ry) == (qy - py) * (rx - qx) - (qx - px) * (ry - qy)
segments_intersect(ax, ay, bx, by, cx, cy, dx, dy) ==
    LET o1 == orient(ax, ay, bx, by, cx, cy)
        o2 == orient(ax, ay, bx, by, dx, dy)
        o3 == orient(cx, cy, dx, dy, ax, ay)
        o4 == orient(cx, cy, dx, dy, bx, by)
    IN IF o1 = 0 /\ o2 = 0 /\ o3 = 0 /\ o4 = 0
       THEN ~(\/ Max2(ax, bx) < Min2(cx, dx)
              \/ Max2(cx, dx) < Min2(ax, bx)
              \/ Max2(ay, by) < Min2(cy, dy)
              \/ Max2(cy, dy) < Min2(ay, by))
       ELSE o1 * o2 <= 0 /\ o3 * o4 <= 0

SegPoints == (0..MaxSegX) \X (0..MaxSegY)

InitSegments ==
    /\ config = DefaultConfig
    /\ used_legend_tokens = {}
    /\ cpp_data = IdleData
    /\ calls = 0
    /\ out = NoOut
    /\ page_call = NoPageCall
    /\ label_call = NoLabelCall
    /\ op_data = NoOpData
    /\ tile_labels = NoTileLabels
    /\ text_call = NoTextCall
    /\ cluster_call = NoClusterCall
    /\ segment_call \in {[NoSegmentCall EXCEPT !.a1 = a1, !.a2 = a2,
                                               !.b1 = b1, !.b2 = b2]
                         : a1 \in SegPoints, a2 \in SegPoints,
                           b1 \in SegPoints, b2 \in SegPoints}

\* _intersect(a1, a2, b1, b2) and self._segments_intersect(*a1, *a2, *b1, *b2)
TestSegments ==
    /\ ~segment_call.done
    /\ segment_call' =
          [segment_call EXCEPT
              !.label_place = intersect(segment_call.a1, segment_call.a2,
                                        segment_call.b1, segment_call.b2),
              !.svg = segments_intersect(
                          segment_call.a1[1], segment_call.a1[2],
                          segment_call.a2[1], segment_call.a2[2],
                          segment_call.b1[1], segment_call.b1[2],
                          segment_call.b2[1], segment_call.b2[2]),
              !.done = TRUE]
    /\ UNCHANGED <<config, used_legend_tokens, cpp_data, calls, out, page_call,
                   label_call, op_data, tile_labels, text_call, cluster_call>>

SpecSegments == InitSegments /\ [][TestSegments]_vars

(***************************************************************************)
(* Properties                                                              *)
(***************************************************************************)
GeneratorOps == {"generate_complete_svg", "generate_drawings_paginated"}
Sheets == {out.sheets[i] : i \in 1..Len(out.sheets)}
Pts == cpp_data.boundary_points
NPts == Len(Pts)
NextIdx(i) == (i % NPts) + 1

\* C1: whenever a render call of the generator has returned, every sheet or
\* CH tile it emitted was started with an empty used_legend_tokens set.
C1_TokensEmptyAtSheetStart ==
    (out.op \in GeneratorOps /\ ~out.raised)
        => \A sh \in Sheets : sh.start_tokens = {}

\* C2: when a render operation has returned, every field of the caller's
\* config has the value it had before the call.
C2_ConfigUnchangedOnReturn ==
    (out.op # "none" /\ ~out.raised) => config = out.cfg_before

\* the status and the style the claim C3 gives a segment with endpoint kinds
\* k1 and k2
ClaimedStatus(k1, k2) ==
    IF k1 = "EXISTING" /\ k2 = "EXISTING" THEN "EXISTING"
    ELSE IF k1 \in {"CREATED", "NEW"} \/ k2 \in {"CREATED", "NEW"} THEN "NEW"
    ELSE "UNCERTAIN"
ClaimedStroke(st) == IF st = "NEW" THEN red ELSE black
ClaimedDash(st) == IF st = "UNCERTAIN" THEN "2mm 1mm" ELSE ""

\* C3: every boundary segment drawn by the DRAWING, SGP, CH and SCHEME
\* composers has the colour and dash of the status derived from the kinds of
\* its two endpoints (black solid, red solid, black dashed).
C3_SegmentsStyledByStatus ==
    (out.op \in GeneratorOps /\ ~out.raised)
        => \A sh \in Sheets : \A i \in 1..Len(sh.segs) :
              LET st == ClaimedStatus(Pts[i].kind, Pts[NextIdx(i)].kind)
              IN /\ sh.segs[i].stroke = ClaimedStroke(st)
                 /\ sh.segs[i].dash = ClaimedDash(st)

ClassifiedSheet ==
    /\ out.op = "generate_complete_svg"
    /\ out.section \in {"DRAWING", "SGP"}
    /\ ~out.raised

\* C4: the classification of generate_parcel_graphics and
\* generate_sgp_graphics gives every segment one of EXISTING, NEW, UNCERTAIN,
\* and two segments whose endpoint kinds are each other's mirror image get
\* the same status.
C4_ClassificationTotalSymmetric ==
    ClassifiedSheet
        => \A sh \in Sheets :
              /\ \A i \in 1..Len(sh.segs) :
                    sh.segs[i].status \in {"EXISTING", "NEW", "UNCERTAIN"}
              /\ \A i, j \in 1..Len(sh.segs) :
                    (Pts[i].kind = Pts[NextIdx(j)].kind
                     /\ Pts[NextIdx(i)].kind = Pts[j].kind)
                        => sh.segs[i].status = sh.segs[j].status

\* a two-point ring of unlike kinds was drawn: its two segments mirror
C4_Witness ==
    /\ ClassifiedSheet
    /\ NPts = 2
    /\ Pts[1].kind = "REMOVED" /\ Pts[2].kind = "CREATED"
    /\ Len(out.sheets[1].segs) = 2
    /\ out.sheets[1].segs[1].status = "NEW"

FormatByName(name) == IF name = "A3" THEN A3 ELSE A4
AllowedSet ==
    IF page_call.allowed = <<>>
    THEN {DefaultAllowed[i] : i \in 1..Len(DefaultAllowed)}
    ELSE {page_call.allowed[i] : i \in 1..Len(page_call.allowed)}
\* the N of the allowed list with N >= need_N on the workarea of fmt
LargeEnough(fmt) ==
    {n \in AllowedSet :
        /\ n * (fmt.width_mm - fmt.margin_left_mm - fmt.margin_right_mm)
              >= Max2(1, page_call.bbox[3] - page_call.bbox[1])
        /\ n * (fmt.height_mm - fmt.margin_top_mm - fmt.margin_bottom_mm)
              >= Max2(1, page_call.bbox[4] - page_call.bbox[2])}

\* C5: the N returned is the smallest allowed N with N >= need_N for the
\* returned format (equality included), and the largest allowed N when no
\* allowed N is large enough.
C5_SmallestSufficientScale ==
    page_call.done
        => LET ok == LargeEnough(FormatByName(page_call.format))
           IN /\ page_call.n \in AllowedSet
              /\ ok # {} => (page_call.n \in ok /\ \A m \in ok : page_call.n <= m)
              /\ ok = {} => \A m \in AllowedSet : m <= page_call.n

\* content that needs exactly the A4 workarea at 1:500 gets 500
C5_Witness ==
    /\ page_call.done
    /\ page_call.bbox = <<0, 0, 85000, 138500>>
    /\ page_call.allowed = <<1000, 500>>
    /\ page_call.n = 500

\* C6: content too large for A4 at every allowed scale is put on A3.
C6_TooLargeForA4GivesA3 ==
    (page_call.done /\ LargeEnough(A4) = {}) => page_call.format = "A3"

ChReturned ==
    /\ out.op = "generate_drawings_paginated"
    /\ out.section = "CH"

\* the least k >= 1 with k * wa >= content, i.e. max(1, ceil(content / wa))
LeastCover(content, wa) ==
    CHOOSE k \in 1..(content \div wa + 1) :
        k * wa >= content /\ (k = 1 \/ (k - 1) * wa < content)
ChScale == IF cpp_data.scales_allowed = <<>> THEN 500 ELSE cpp_data.scales_allowed[1]
ChCols == LeastCover(WidthM(Pts) * px_per_meter(ChScale), workarea_size_px(config)[1])
ChRows == LeastCover(HeightM(Pts) * px_per_meter(ChScale), workarea_size_px(config)[2])

\* C7: CH pagination of a non-empty point list returns rows * cols sheets,
\* rows and cols counted per axis at the first allowed scale, and the sheet
\* of tile (r, c) is at index r * cols + c.
C7_TilesRowMajor ==
    ChReturned
        => /\ Len(out.sheets) = ChRows * ChCols
           /\ \A r \in 0..(ChRows - 1) : \A c \in 0..(ChCols - 1) :
                 out.sheets[r * ChCols + c + 1].tile = <<r, c>>

\* a drawing of several rows and several columns was paginated
C7_Witness ==
    /\ ChReturned
    /\ ChRows >= 2 /\ ChCols >= 3
    /\ Len(out.sheets) = ChRows * ChCols

InsideRect(x, y, rect) ==
    /\ rect[1] <= x /\ x <= rect[1] + rect[3]
    /\ rect[2] <= y /\ y <= rect[2] + rect[4]

\* C8: in CH pagination every boundary point is visible on some tile: its
\* position on that tile is inside the viewBox and inside the clip rectangle.
C8_EveryPointOnSomeTile ==
    ChReturned
        => \A i \in 1..NPts : \E sh \in Sheets :
              /\ InsideRect(sh.points[i].x_rel, sh.points[i].y_rel,
                            <<0, 0, sh.view[1], sh.view[2]>>)
              /\ InsideRect(sh.points[i].x_rel, sh.points[i].y_rel, sh.clip)

NewRingDrawn ==
    /\ out.op = "generate_complete_svg"
    /\ out.section = "DRAWING"
    /\ NPts >= 3
    /\ \A i \in 1..NPts : Pts[i].kind = "CREATED"
    /\ Len(cpp_data.parcels) = 1
    /\ cpp_data.parcels[1].status = "NEW"

\* C9: the DRAWING of a ring of n >= 3 CREATED points with one NEW parcel has
\* n red boundary-new segments, n red points labelled with the new-point
\* prefix and 1..n in ring order, and no station or direction markup.
C9_DrawingOfNewRing ==
    NewRingDrawn
        => LET sh == out.sheets[1]
           IN /\ Len(sh.segs) = NPts
              /\ \A i \in 1..NPts :
                    /\ sh.segs[i].stroke = red
                    /\ sh.segs[i].dash = ""
                    /\ sh.segs[i].status = "NEW"
              /\ "boundary-new" \in sh.end_tokens
              /\ Len(sh.points) = NPts
              /\ \A i \in 1..NPts :
                    /\ sh.points[i].fill = red
                    /\ sh.points[i].label = <<"cyr_n">> \o IntToStr(i)
              /\ sh.stations = <<>>
              /\ sh.directions = <<>>

\* the 200 x 200 square of four CREATED points was drawn
C9_Witness ==
    /\ NewRingDrawn
    /\ NPts = 4
    /\ out.sheets[1].points[4].label = <<"cyr_n", "4">>

GrammarOf ==
    [base_label_for_clarify |-> "clarify",
     new_label_for_split |-> "split",
     new_label_for_merge |-> "merge",
     part_existing |-> "part_existing",
     part_new_on_changed |-> "part_new_changed",
     part_new_on_split |-> "part_new_split",
     part_new_on_merge |-> "part_new_merge"]

\* C10: the string a formatter produces from a digit-string block number and
\* non-negative counters is accepted by validate_label with the formatter's
\* own grammar kind.
C10_FormatterRoundTrip ==
    label_call.fn # ""
        => validate_label(label_call.text, GrammarOf[label_call.fn])

\* a two-digit counter went through the longest grammar
C10_Witness ==
    /\ label_call.fn = "part_new_on_changed"
    /\ label_call.n = 10
    /\ label_call.text = <<":", "1", "/", "cyr_ch", "cyr_z", "cyr_u", "1", "0">>

\* C11: a parcel whose designation matched one of the seven grammars before
\* _apply_operation_labels has the same designation after it.
MatchesSomeGrammar(label) ==
    \E kind \in DOMAIN REGEX_LABELS : validate_label(label, kind)
C11_ValidDesignationKept ==
    calls > 0
        => \A i \in 1..Len(op_data.before) :
              MatchesSomeGrammar(op_data.before[i].designation)
                  => op_data.parcels[i].designation = op_data.before[i].designation

\* a split relabelled one parcel and kept the valid designation of another
C11_Witness ==
    /\ calls = 1
    /\ operation_upper(op_data.operation) = "SPLIT"
    /\ op_data.parcel_xml_count = 1
    /\ Len(op_data.parcels) = 2
    /\ op_data.before[1].designation = <<":", "7">>
    /\ op_data.parcels[1].designation = <<":", "7">>
    /\ op_data.before[2].designation = <<"x">>
    /\ op_data.parcels[2].designation # <<"x">>

\* C12: a second _apply_operation_labels on the data the first one labelled
\* changes no designation.
C12_SecondCallChangesNothing ==
    calls >= 2 => op_data.parcels = op_data.before

\* the bounding box of the boundary points has no width or no height (no
\* point, one point, coincident points, points in a row or in a column)
DegenerateBox ==
    Pts = <<>> \/ WidthM(Pts) = 0 \/ HeightM(Pts) = 0

\* C13: a render of boundary points with a degenerate bounding box returns
\* an output value; it does not end in an exception.
C13_DegenerateNeverRaises ==
    (out.op # "none" /\ DegenerateBox) => ~out.raised


\* C14: a label is always emitted.  Every pass of a placement loop returns a
\* position, whether the search accepted a candidate or fell back; once a CH
\* tile or the SGP sheet is drawn it holds exactly one label text per
\* boundary point, at the position found for that point; render_srzu writes
\* one text per label it has passed.
TL == tile_labels
C14_LabelAlwaysEmitted ==
    /\ Len(TL.tested) = TL.i
    /\ TL.composer \in {"CH", "SGP"} => Len(TL.label_positions) = TL.i
    /\ TL.composer = "SRZU" => Len(TL.texts) = TL.i
    /\ TL.drawn =>
          /\ Len(TL.texts) = Len(TL.point_data)
          /\ \A k \in 1..Len(TL.point_data) :
                /\ TL.texts[k].label = TL.point_data[k].label
                /\ TL.texts[k].x = TL.label_positions[k].x
                /\ TL.texts[k].y = TL.label_positions[k].y

\* a drawn CH tile of three points, one of them labelled at the fallback
\* position because every candidate of the spiral conflicted
C14_Witness ==
    /\ TL.composer = "CH"
    /\ TL.drawn
    /\ Len(TL.texts) = 3
    /\ \E k \in 1..3 :
          /\ ~TL.tested[k].accepted
          /\ TL.texts[k].x = TL.point_data[k].x_rel + max_radius
          /\ TL.texts[k].label = TL.point_data[k].label

\* C15: every text element a composer writes has a font size of at least
\* min_font_pt converted to pixels at the configured dpi, whatever font_size,
\* min_font_pt and dpi are configured.
C15_FontNotBelowFloor ==
    text_call.done =>
        text_call.written >= pt_to_px(text_call.min_font_pt, text_call.dpi)

\* C16: after any sequence of renders every legend token, in
\* used_legend_tokens and in the token set a render handed back, belongs to
\* the fixed vocabulary of seventeen tokens.
ClaimedVocabulary ==
    {"point-existing", "point-new", "point-removed", "boundary-existing",
     "boundary-new", "boundary-uncertain", "ggs", "oms", "geodir-create",
     "geodir-determine", "target", "adjacent", "quarters", "admin", "zone",
     "label-quarter", "label-parcel"}
C16_TokensInVocabulary ==
    /\ used_legend_tokens \subseteq ClaimedVocabulary
    /\ \A sh \in Sheets : sh.end_tokens \subseteq ClaimedVocabulary

\* C17: an SGP render of input with an OMS station and a direction holds a
\* direction line of stroke-width 0.2mm ending in the marker arrowhead, a rect
\* station symbol, and a distance label whose text ends in the letter m
\* (Cyrillic).
SgpWithOmsAndDirection ==
    /\ out.op = "generate_complete_svg"
    /\ out.section = "SGP"
    /\ ~out.raised
    /\ cpp_data.boundary_points # <<>>
    /\ cpp_data.directions # <<>>
    /\ \E i \in 1..Len(cpp_data.stations) : cpp_data.stations[i].kind = "OMS"
C17_SgpRequiredElements ==
    SgpWithOmsAndDirection =>
        \A sh \in Sheets :
            /\ \E i \in 1..Len(sh.stations) :
                  /\ sh.stations[i].line.stroke_width = "0.2mm"
                  /\ sh.stations[i].line.marker_end = "url(#arrowhead)"
            /\ \E i \in 1..Len(sh.stations) : sh.stations[i].symbol = "rect"
            /\ \E i \in 1..Len(sh.stations) :
                  LET sfx == sh.stations[i].dist_suffix
                  IN sfx # <<>> /\ sfx[Len(sfx)] = "cyr_m"

\* C18: in DRAWING, SCHEME and on every CH tile the parcel label that is
\* drawn is the label of the main parcel: the first parcel with is_main set
\* or status NEW, or the first parcel when none qualifies.
ClaimedMainParcel ==
    LET ps == cpp_data.parcels
        q == {i \in 1..Len(ps) : ps[i].is_main \/ ps[i].status = "NEW"}
    IN IF q # {} THEN ps[SetMin(q)] ELSE ps[1]
C18_LabelOfMainParcel ==
    (/\ out.op \in GeneratorOps
     /\ out.section \in {"DRAWING", "SCHEME", "CH"}
     /\ ~out.raised)
    => \A sh \in Sheets : \A i \in 1..Len(sh.parcel_label) :
           sh.parcel_label[i].text
             \in {build_parcel_label(ClaimedMainParcel),
                  display_label(build_parcel_label(ClaimedMainParcel))}

\* C19: within one CH tile the obstacle list label_positions is empty before
\* the first label and holds, for every label placed so far and in the order
\* of placement, the rectangle that the search evaluated at the position it
\* returned.
C19_ObstacleIsTestedRect ==
    TL.composer = "CH" =>
        /\ Len(TL.label_positions) = TL.i
        /\ \A k \in 1..TL.i :
              TL.label_positions[k].bbox = TL.tested[k].rect

\* C20: any two points of the list whose distance is at most cluster_radius
\* are in the same cluster of the list _detect_point_clusters returns.
CC == cluster_call
WithinRadius(i, j) ==
    (CC.point_data[i].x_rel - CC.point_data[j].x_rel)
      * (CC.point_data[i].x_rel - CC.point_data[j].x_rel)
    + (CC.point_data[i].y_rel - CC.point_data[j].y_rel)
      * (CC.point_data[i].y_rel - CC.point_data[j].y_rel)
    <= CC.cluster_radius * CC.cluster_radius
C20_NearPointsShareCluster ==
    CC.done =>
        \A i, j \in 1..Len(CC.point_data) :
            WithinRadius(i, j) =>
                \E c \in 1..Len(CC.clusters) :
                    i \in CC.clusters[c] /\ j \in CC.clusters[c]

\* C21: when the spiral search of a CH tile finds no admissible position, the
\* label is placed at the start point displaced by the maximal offset
\* (max_radius) along the original direction from the labelled point to
\* the start point.
C21_FallbackAlongDirection ==
    \A k \in 1..Len(TL.tested) :
        (TL.composer = "CH" /\ ~TL.tested[k].accepted)
            => /\ TL.label_positions[k].x =
                     TL.tested[k].start[1]
                         + (TL.tested[k].dir[1] * max_radius) \div 1000
               /\ TL.label_positions[k].y =
                     TL.tested[k].start[2]
                         + (TL.tested[k].dir[2] * max_radius) \div 1000

\* C22: _intersect of label_place and _segments_intersect of the generator
\* both answer true exactly for the pairs of segments that share at least
\* one point, collinear overlaps and touching end points included.
SC == segment_call
Cross(p, q, r) == (q[1] - p[1]) * (r[2] - p[2]) - (q[2] - p[2]) * (r[1] - p[1])
OnSegment(p, a, b) ==
    /\ Cross(a, b, p) = 0
    /\ Min2(a[1], b[1]) <= p[1] /\ p[1] <= Max2(a[1], b[1])
    /\ Min2(a[2], b[2]) <= p[2] /\ p[2] <= Max2(a[2], b[2])
SharePoint(a1, a2, b1, b2) ==
    \/ OnSegment(a1, b1, b2) \/ OnSegment(a2, b1, b2)
    \/ OnSegment(b1, a1, a2) \/ OnSegment(b2, a1, a2)
    \/ /\ Cross(a1, a2, b1) * Cross(a1, a2, b2) < 0
       /\ Cross(b1, b2, a1) * Cross(b1, b2, a2) < 0
C22_IntersectIffSharedPoint ==
    SC.done =>
        /\ SC.label_place = SharePoint(SC.a1, SC.a2, SC.b1, SC.b2)
        /\ SC.svg = SharePoint(SC.a1, SC.a2, SC.b1, SC.b2)

\* C23: render_srzu emits its layers in the order zones, administrative
\* boundaries, adjacent parcels, quarter boundary, target parcel, labels:
\* no element of a later layer precedes an element of an earlier one.
ClaimedRank(layer) ==
    CASE layer = "zone" -> 1
      [] layer = "admin" -> 2
      [] layer = "adjacent" -> 3
      [] layer = "quarters" -> 4
      [] layer = "target" -> 5
      [] OTHER -> 6
C23_SrzuLayerOrder ==
    (out.op = "render_srzu" /\ ~out.raised)
        => \A sh \in Sheets :
              \A i \in 1..Len(sh.layers) : \A j \in 1..Len(sh.layers) :
                  i < j => ClaimedRank(sh.layers[i]) <= ClaimedRank(sh.layers[j])

\* C24: the content bounding box of render_srzu is the bounding box of the
\* target parcels, the adjacent parcels kept by the buffer filter and the
\* quarter geometries, padded by 5% of its extent on each side (in mm of
\* ground).
DrawnPts(sh) ==
    Flatten(sh.data.target_parcels) \o Flatten(sh.data.adjacent_parcels)
        \o Flatten(sh.data.quarters)
PaddedBox(pts) ==
    LET x0 == SetMin(XsOf(pts)) * 1000
        y0 == SetMin(YsOf(pts)) * 1000
        x1 == SetMax(XsOf(pts)) * 1000
        y1 == SetMax(YsOf(pts)) * 1000
    IN <<x0 - (x1 - x0) \div 20, y0 - (y1 - y0) \div 20,
         x1 + (x1 - x0) \div 20, y1 + (y1 - y0) \div 20>>
C24_SrzuContentBox ==
    (out.op = "render_srzu" /\ ~out.raised)
        => \A sh \in Sheets :
              DrawnPts(sh) # <<>> => sh.content_bbox = PaddedBox(DrawnPts(sh))

\* C25: on a CH drawing of several tiles every tile carries the "see page N"
\* hints of exactly the tiles that share an edge with it in the rows x cols
\* grid (page N = r * cols + c + 1), and the only tile of a single-tile
\* drawing carries none.
GridCols == 1 + SetMax({sh.tile[2] : sh \in Sheets})
EdgeNeighbours(sh) ==
    {nb \in Sheets : Abs(nb.tile[1] - sh.tile[1]) + Abs(nb.tile[2] - sh.tile[2]) = 1}
C25_HintsAreEdgeNeighbours ==
    (ChReturned /\ ~out.raised /\ out.sheets # <<>>)
        => \A sh \in Sheets :
              {sh.hints[k] : k \in 1..Len(sh.hints)}
                  = {nb.tile[1] * GridCols + nb.tile[2] + 1
                     : nb \in EdgeNeighbours(sh)}

\* C26: the parcel label drawn on a sheet is the designation that
\* _apply_operation_labels assigned to or kept on that parcel, also when the
\* parcel carries a cadastral number.
C26_DrawnLabelIsDesignation ==
    op_data.ch_label # <<>>
        => op_data.ch_label[1] = op_data.parcels[1].designation

\* C27: after _apply_operation_labels no two parcels carry the same
\* designation, whatever the operation, provided the designations set
\* beforehand are pairwise distinct and the parcels of a SPLIT, PARTS or
\* CLARIFY run share one block number.
PreSetDistinct ==
    \A i \in 1..Len(op_data.before) : \A j \in 1..Len(op_data.before) :
        (i # j /\ op_data.before[i].designation # <<>>)
            => op_data.before[i].designation # op_data.before[j].designation
ShareBlock ==
    operation_upper(op_data.operation) \in {"SPLIT", "PARTS", "CLARIFY"}
        => \A i \in 1..Len(op_data.before) : \A j \in 1..Len(op_data.before) :
              LastBlock(op_data.before[i].cadastral_number, ":")
                  = LastBlock(op_data.before[j].cadastral_number, ":")
C27_DesignationsUnique ==
    (calls > 0 /\ PreSetDistinct /\ ShareBlock)
        => \A i \in 1..Len(op_data.parcels) : \A j \in 1..Len(op_data.parcels) :
              i # j => op_data.parcels[i].designation
                           # op_data.parcels[j].designation

\* C28: a boundary point carries the same label text on the SGP sheet, on
\* every CH tile and on the DRAWING sheet, whatever the kinds of the points:
\* the sheets of two successive calls on the same cpp_data agree on them.
PointSections == {"SGP", "CH", "DRAWING"}
C28_SameLabelOnAllSheets ==
    (/\ out.section \in PointSections /\ ~out.raised
     /\ out.earlier.section \in PointSections
     /\ out.earlier.labels # <<>>)
        => \A sh \in Sheets :
              sh.points # <<>> => point_labels(sh) = out.earlier.labels

\* C29: every legend token added by generate_sgp_graphics,
\* generate_drawings_paginated, generate_parcel_graphics or render_srzu has
\* a row in the legend that LegendBuilder.build returns for the call.
EmittedTokens ==
    IF out.op = "render_srzu" THEN out.sheets[1].end_tokens
    ELSE used_legend_tokens
C29_EveryTokenHasLegendRow ==
    (out.legend_done /\ out.section \in {"SGP", "CH", "DRAWING", "SRZU"})
        => \A t \in EmittedTokens :
              \E k \in 1..Len(out.legend_items) :
                  out.legend_items[k].css = <<"legend-", t>>

AnchorOnAvoid(k) ==
    \E m \in 1..Len(TL.avoid) : \E n \in 1..(Len(TL.avoid[m]) - 1) :
        OnSegment(<<TL.point_data[k].x_rel, TL.point_data[k].y_rel>>,
                  TL.avoid[m][n], TL.avoid[m][n + 1])
====
